---- MODULE Spec2Model ----
(***************************************************************************)
(* A model of the extraction pipeline of MineExtractor_v6                  *)
(* (mine_extractor_refactored/processors/data_transformer.py):             *)
(*   - ChunkProcessor.create_chunks            (specification SpecChunks)  *)
(*   - ChunkProcessor.combine_chunk_results    (specification SpecCombine) *)
(*   - ProcessingOrchestrator.process_content with the chunk loop and the  *)
(*     chunk executor                          (specification Spec)        *)
(* Text is modelled as a sequence of tokens: a document is a sequence of   *)
(* characters, a chunk payload is the header tokens followed by document   *)
(* characters.  Field names and values of a record are sequences of        *)
(* one-character strings, so that trimming is computed, not assumed.       *)
(***************************************************************************)
EXTENDS Integers, Sequences, FiniteSets, TLC

(***************************************************************************)
(* Bounds of the model.                                                    *)
(***************************************************************************)
\* longest document given to create_chunks
MaxLen == 6
\* largest chunk_size argument given to create_chunks
MaxChunkSize == 3
\* largest overlap_size argument given to create_chunks
MaxOverlap == 8
\* largest valid max_chunks_per_file value found in the configuration
MaxCfgChunks == 3

\* settings.MAX_CHUNKS_PER_FILE, the default of _get_max_chunks_per_file
MAX_CHUNKS_PER_FILE == 24

VARIABLES
    \* ---- create_chunks ----
    content,        \* the document text: a sequence of characters
    chunk_size,     \* argument chunk_size
    overlap_size,   \* argument overlap_size
    cfg_max,        \* what the configuration holds for max_chunks_per_file
    chunks,         \* local `chunks`, and the returned list once cpc = "done"
    start_idx,      \* local start_idx
    chunk_index,    \* local chunk_index
    max_chunks,     \* local max_chunks
    cpc,            \* position in create_chunks: "idle", "call", "loop", "done"
    \* ---- combine_chunk_results ----
    chunk_results,       \* the list of ChunkResult given to the combiner
    successful_results,  \* local successful_results
    combined_data,       \* local combined_data: a dict, field name -> value
    res_i,               \* position of the outer loop in successful_results
    item_i,              \* position of the inner loop in chunk_data.items()
    combination_result,  \* the TransformationResult returned
    kpc,            \* position in combine_chunk_results: "idle", "call", "loop", "done"
    \* ---- ProcessingOrchestrator.process_content, chunk loop, chunk executor ----
    use_chunks,          \* argument use_chunks: "True", "False" or "None"
    config,              \* api_client_manager.config and what the manager offers
    abort_processing,    \* ChunkProcessor.abort_processing
    agent_manager,       \* ProcessingOrchestrator.agent_manager: None or "AgentManager"
    ppc,                 \* position in process_content
    loop_i,              \* the chunk the loop of process_chunks_async is at
    xpc,                 \* position in _process_single_chunk
    api_calls,           \* the calls the API client has received, in order
    backfill_calls,      \* number of fill_missing_fields calls received
    processing_result,   \* the ProcessingResult returned
    doc_no,              \* which process_content call of this orchestrator runs
    abort_doc,           \* the call during which abort() was called, or 0
    \* ---- threads running the backfill branch of _process_with_chunks ----
    tpc,                 \* position of each thread in the backfill branch
    lock_owner,          \* the thread holding _agent_manager_lock, or 0
    constructed,         \* number of AgentManager instances constructed
    used,                \* the instance each thread called fill_missing_fields on
    \* ---- UnitConverter and JSONUtils ----
    input_text,          \* argument text
    target_unit,         \* argument target_unit of normalize_area
    conversion_result,   \* the ConversionResult returned
    json_str,            \* what extract_json_from_text returned
    upc,                 \* "idle", "call" or the function that has returned
    \* ---- DataTransformer ----
    mine_data,             \* argument mine_data / data: the items of a dict
    potential_mine_names,  \* file_info.potential_mine_names
    best_matches,          \* what MineNameProcessor.find_best_mine_match answers
    transformation_result, \* the TransformationResult returned
    dpc                    \* "idle", "call" or the method that has returned

chunkVars == <<content, chunk_size, overlap_size, cfg_max, chunks, start_idx,
               chunk_index, max_chunks, cpc>>

combVars == <<chunk_results, successful_results, combined_data, res_i, item_i,
              combination_result, kpc>>

pipeVars == <<use_chunks, config, abort_processing, agent_manager, ppc, loop_i,
              xpc, api_calls, backfill_calls, processing_result, doc_no,
              abort_doc>>

threadVars == <<tpc, lock_owner, constructed, used>>

utilVars == <<input_text, target_unit, conversion_result, json_str, upc>>

transformVars == <<mine_data, potential_mine_names, best_matches,
                   transformation_result, dpc>>

vars == <<chunkVars, combVars, pipeVars, threadVars, utilVars, transformVars>>

(***************************************************************************)
(* Python helpers.                                                         *)
(***************************************************************************)
\* Python's None
NoneValue == [py_none |-> TRUE]

\* None where the other values are strings
NoneStr == "None"

\* an empty dict
EmptyDict == <<>>

\* the orchestrator when the specification at hand does not run it
PipeIdle ==
    /\ use_chunks = NoneStr
    /\ config = NoneValue
    /\ abort_processing = FALSE
    /\ agent_manager = NoneStr
    /\ ppc = "idle"
    /\ loop_i = 1
    /\ xpc = "idle"
    /\ api_calls = <<>>
    /\ backfill_calls = 0
    /\ processing_result = NoneValue
    /\ doc_no = 1
    /\ abort_doc = 0

\* the backfill threads when the specification at hand does not run them
ThreadsIdle ==
    /\ tpc = <<>>
    /\ lock_owner = 0
    /\ constructed = 0
    /\ used = <<>>

\* UnitConverter and JSONUtils when the specification at hand does not run them
UtilsIdle ==
    /\ input_text = <<>>
    /\ target_unit = <<>>
    /\ conversion_result = NoneValue
    /\ json_str = NoneValue
    /\ upc = "idle"

\* the DataTransformer when the specification at hand does not run it
TransformIdle ==
    /\ mine_data = <<>>
    /\ potential_mine_names = <<>>
    /\ best_matches = <<>>
    /\ transformation_result = NoneValue
    /\ dpc = "idle"

\* create_chunks when the specification at hand does not run it
ChunksIdle ==
    /\ content = <<>>
    /\ chunk_size = 1
    /\ overlap_size = 0
    /\ cfg_max = [kind |-> "absent", value |-> 0]
    /\ chunks = <<>>
    /\ start_idx = 0
    /\ chunk_index = 1
    /\ max_chunks = 0
    /\ cpc = "idle"

\* the combiner when the specification at hand does not run it
CombineIdle ==
    /\ chunk_results = <<>>
    /\ successful_results = <<>>
    /\ combined_data = EmptyDict
    /\ res_i = 1
    /\ item_i = 1
    /\ combination_result = NoneValue
    /\ kpc = "idle"

Min2(a, b) == IF a <= b THEN a ELSE b
Max2(a, b) == IF a >= b THEN a ELSE b

Range(s) == {s[i] : i \in DOMAIN s}

\* A slice bound as Python clamps it: negative bounds count from the end.
PyBound(i, n) ==
    IF i < 0 THEN Max2(i + n, 0) ELSE Min2(i, n)

\* s[a:b] of a Python sequence (0-based, b exclusive, negative bounds allowed)
PySlice(s, a, b) ==
    LET lo == PyBound(a, Len(s))
        hi == PyBound(b, Len(s))
    IN  IF lo < hi THEN SubSeq(s, lo + 1, hi) ELSE <<>>

\* s[a:]
PySliceFrom(s, a) == PySlice(s, a, Len(s))

(***************************************************************************)
(* Documents.  Character p of a document is the character Alphabet[p]: the *)
(* characters of one document are pairwise different, so a character found *)
(* in a payload identifies the position it was copied from.                *)
(***************************************************************************)
Alphabet == <<"a", "b", "c", "d", "e", "f", "g", "h", "i", "j">>

Doc(n) == SubSeq(Alphabet, 1, n)

FILE_BASENAME == "doc.txt"

\* number of characters of a text given as tokens
RECURSIVE TextLen(_)
TextLen(t) == IF t = <<>> THEN 0 ELSE Len(Head(t)) + TextLen(Tail(t))

\* a piece of an f-string: nothing when the piece is empty
Piece(s) == IF s = "" THEN <<>> ELSE <<s>>

(***************************************************************************)
(* ChunkInfo: __post_init__ overwrites chunk_size with len(chunk_text).    *)
(***************************************************************************)
ChunkInfo(id, text, description, size, meta) ==
    [chunk_id          |-> id,
     chunk_text        |-> text,
     file_basename     |-> FILE_BASENAME,
     chunk_description |-> description,
     chunk_size        |-> TextLen(text),
     metadata          |-> meta]

ChunkIdOf(i) == "CHUNK-" \o ToString(i)

(***************************************************************************)
(* _get_max_chunks_per_file: the configured value when it is a positive    *)
(* integer, MAX_CHUNKS_PER_FILE when the key is absent, the value is not   *)
(* an integer or not positive, or loading the configuration raises.        *)
(***************************************************************************)
CfgValues ==
    {[kind |-> "absent", value |-> 0], [kind |-> "raises", value |-> 0],
     [kind |-> "not_int", value |-> 0]}
    \cup {[kind |-> "int", value |-> v] : v \in -1 .. MaxCfgChunks}

GetMaxChunksMutNoValidation(cfg) ==
    IF cfg.kind = "int" THEN cfg.value ELSE MAX_CHUNKS_PER_FILE

GetMaxChunksPerFile(cfg) ==
    CASE cfg.kind = "raises" -> MAX_CHUNKS_PER_FILE
      [] cfg.kind = "absent" -> MAX_CHUNKS_PER_FILE
      [] cfg.kind = "not_int" -> MAX_CHUNKS_PER_FILE
      [] OTHER -> IF cfg.value <= 0 THEN MAX_CHUNKS_PER_FILE ELSE cfg.value

(***************************************************************************)
(* create_chunks.                                                          *)
(***************************************************************************)
\* the test `content_length <= chunk_size` of the single-chunk branch
FitsOneChunkMutStrict(n, size) == n < size

FitsOneChunk(n, size) == n <= size

SingleChunk(c) ==
    ChunkInfo("SINGLE",
              <<"'" \o FILE_BASENAME \o "' (VOLLSTAENDIG)", "\n", "\n">> \o c,
              "Vollstaendiger Inhalt",
              Len(c),
              [has_overlap |-> FALSE])

\* description and its upper-case form, by the position of the window
DescriptionOf(start, end, n, index) ==
    IF start = 0 THEN [text |-> "Anfangsbereich", upper |-> "ANFANGSBEREICH"]
    ELSE IF end >= n THEN [text |-> "Endbereich", upper |-> "ENDBEREICH"]
    ELSE [text  |-> "Bereich " \o ToString(index),
          upper |-> "BEREICH " \o ToString(index)]

\* the loop condition of the chunking loop
LoopCondMutOffByOne(start, index, n, maxc) == start < n /\ index <= maxc + 1

LoopCond(start, index, n, maxc) == start < n /\ index <= maxc

\* the chunk appended by one iteration of the loop
WindowChunk(c, start, index, size, overlap) ==
    LET n == Len(c)
        effective_start ==
            IF index > 1 THEN Max2(0, start - overlap) ELSE start
        end_idx == Min2(start + size, n)
        pulled == index > 1 /\ effective_start < start
        chunk_content ==
            IF pulled THEN PySlice(c, effective_start, end_idx)
            ELSE PySlice(c, start, end_idx)
        context_marker ==
            IF pulled
            THEN "[...Kontext-Ueberlappung: " \o ToString(start - effective_start)
                 \o " Zeichen...]\n"
            ELSE ""
        d == DescriptionOf(start, end_idx, n, index)
    IN  ChunkInfo(ChunkIdOf(index),
                  <<"'" \o FILE_BASENAME \o "' (" \o d.upper \o ")", "\n">>
                      \o Piece(context_marker) \o <<"\n">> \o chunk_content,
                  d.text,
                  Len(chunk_content),
                  [has_overlap   |-> index > 1,
                   overlap_start |-> effective_start,
                   chunk_start   |-> start,
                   chunk_end     |-> end_idx])

\* start_idx after one iteration
NextStart(c, start, size, overlap) ==
    LET n == Len(c)
        end_idx == Min2(start + size, n)
    IN  IF end_idx < n THEN end_idx - (overlap \div 4) ELSE end_idx

\* the list after the loop: the uncovered rest goes onto the last chunk
AppendTail(c, list, start) ==
    IF start < Len(c) /\ list # <<>>
    THEN LET last == list[Len(list)]
             combined_text == last.chunk_text \o PySliceFrom(c, start)
         IN  [list EXCEPT ![Len(list)] =
                 ChunkInfo(last.chunk_id, combined_text,
                           last.chunk_description, TextLen(combined_text),
                           <<>>)]
    ELSE list

CreateChunksCall ==
    /\ cpc = "call"
    /\ IF FitsOneChunk(Len(content), chunk_size)
       THEN /\ chunks' = <<SingleChunk(content)>>
            /\ cpc' = "done"
            /\ UNCHANGED <<start_idx, chunk_index, max_chunks>>
       ELSE /\ chunks' = <<>>
            /\ start_idx' = 0
            /\ chunk_index' = 1
            /\ max_chunks' = GetMaxChunksPerFile(cfg_max)
            /\ cpc' = "loop"
    /\ UNCHANGED <<content, chunk_size, overlap_size, cfg_max>>
    /\ UNCHANGED <<combVars, pipeVars, threadVars, utilVars,
                   transformVars>>

CreateChunksIter ==
    /\ cpc = "loop"
    /\ LoopCond(start_idx, chunk_index, Len(content), max_chunks)
    /\ chunks' = Append(chunks, WindowChunk(content, start_idx, chunk_index,
                                            chunk_size, overlap_size))
    /\ start_idx' = NextStart(content, start_idx, chunk_size, overlap_size)
    /\ chunk_index' = chunk_index + 1
    /\ UNCHANGED <<content, chunk_size, overlap_size, cfg_max, max_chunks, cpc>>
    /\ UNCHANGED <<combVars, pipeVars, threadVars, utilVars,
                   transformVars>>

CreateChunksReturn ==
    /\ cpc = "loop"
    /\ ~LoopCond(start_idx, chunk_index, Len(content), max_chunks)
    /\ chunks' = AppendTail(content, chunks, start_idx)
    /\ cpc' = "done"
    /\ UNCHANGED <<content, chunk_size, overlap_size, cfg_max, start_idx,
                   chunk_index, max_chunks>>
    /\ UNCHANGED <<combVars, pipeVars, threadVars, utilVars,
                   transformVars>>

InitChunks ==
    /\ content \in {Doc(n) : n \in 0 .. MaxLen}
    /\ chunk_size \in 1 .. MaxChunkSize
    /\ overlap_size \in 0 .. MaxOverlap
    /\ cfg_max \in CfgValues
    /\ chunks = <<>>
    /\ start_idx = 0
    /\ chunk_index = 1
    /\ max_chunks = 0
    /\ cpc = "call"
    /\ CombineIdle
    /\ PipeIdle
    /\ ThreadsIdle
    /\ UtilsIdle
    /\ TransformIdle

NextChunks ==
    \/ CreateChunksCall
    \/ CreateChunksIter
    \/ CreateChunksReturn

SpecChunks == InitChunks /\ [][NextChunks]_vars

\* create_chunks runs on: a call that has started takes its next step
SpecChunksLive == SpecChunks /\ WF_vars(NextChunks)

\* create_chunks as one value: the loop run to its end, then the tail
RECURSIVE ChunkLoop(_, _, _, _, _, _, _)
ChunkLoop(c, list, start, index, size, overlap, maxc) ==
    IF LoopCond(start, index, Len(c), maxc)
    THEN ChunkLoop(c, Append(list, WindowChunk(c, start, index, size, overlap)),
                   NextStart(c, start, size, overlap), index + 1, size, overlap,
                   maxc)
    ELSE AppendTail(c, list, start)

CreateChunks(c, size, overlap, cfg) ==
    IF FitsOneChunk(Len(c), size)
    THEN <<SingleChunk(c)>>
    ELSE ChunkLoop(c, <<>>, 0, 1, size, overlap, GetMaxChunksPerFile(cfg))

(***************************************************************************)
(* Claims about create_chunks (specification SpecChunks).                  *)
(***************************************************************************)
Returned == cpc = "done"

\* the document characters a chunk's payload carries
DocChars(c) == {x \in Range(c.chunk_text) : x \in Range(Alphabet)}

\* the maximum chunk count in force: the configured value when it is a
\* positive integer, 24 otherwise
MaxChunksInForce ==
    IF cfg_max.kind = "int" /\ cfg_max.value >= 1 THEN cfg_max.value ELSE 24

\* C1: a document no longer than the chunk size comes back as exactly one
\* chunk, with id "SINGLE" and as text the completeness header followed by
\* the whole document verbatim; no CHUNK-n chunk is produced.
C1_SingleChunk ==
    (Returned /\ Len(content) <= chunk_size) =>
        /\ Len(chunks) = 1
        /\ chunks[1].chunk_id = "SINGLE"
        /\ chunks[1].chunk_text =
               <<"'doc.txt' (VOLLSTAENDIG)", "\n", "\n">> \o content
        /\ \A i \in 1 .. Len(chunks), k \in 1 .. 24 :
               chunks[i].chunk_id # ChunkIdOf(k)

\* C1 witness: a non-empty document exactly as long as the chunk size has
\* been returned as one chunk.
C1_Witness ==
    /\ Returned
    /\ Len(content) = chunk_size
    /\ Len(chunks) = 1

\* C2: for a document longer than the chunk size, every character position
\* of the document is contained in the payload of some returned chunk, for
\* every chunk size >= 1 and overlap >= 0, also when the maximum chunk count
\* stops the loop early.
C2_EveryPositionCovered ==
    (Returned /\ Len(content) > chunk_size) =>
        \A p \in 1 .. Len(content) :
            \E i \in 1 .. Len(chunks) : content[p] \in DocChars(chunks[i])

\* C3: for a document longer than the chunk size, between 1 and maxChunks
\* chunks come back, with the ids CHUNK-1, CHUNK-2, ..., CHUNK-n in order.
C3_CountAndIds ==
    (Returned /\ Len(content) > chunk_size) =>
        /\ Len(chunks) >= 1
        /\ Len(chunks) <= MaxChunksInForce
        /\ \A i \in 1 .. Len(chunks) :
               chunks[i].chunk_id = "CHUNK-" \o ToString(i)

\* C3 witness: the configured maximum of 2 chunks stopped the loop before
\* the text was exhausted.
C3_Witness ==
    /\ Returned
    /\ Len(content) > chunk_size
    /\ cfg_max = [kind |-> "int", value |-> 2]
    /\ Len(chunks) = 2
    /\ start_idx < Len(content)

\* C30: the chunking loop ends for every document, chunk size >= 1 and
\* overlap >= 0, after at most maxChunks iterations; and when
\* overlap_size // 4 is smaller than chunk_size, the window start is never
\* negative and every iteration leaves it larger than it was.
C30_LoopTerminates ==
    /\ <>(cpc = "done")
    /\ [](cpc = "loop" => chunk_index - 1 <= MaxChunksInForce)
    /\ []((cpc = "loop" /\ overlap_size \div 4 < chunk_size) => start_idx >= 0)
    /\ [][ (/\ cpc = "loop"
            /\ chunk_index' # chunk_index
            /\ overlap_size \div 4 < chunk_size) =>
               /\ chunk_index' = chunk_index + 1
               /\ start_idx' > start_idx ]_vars

\* C30 witness: with chunk size 2 and overlap 4 the loop made its three
\* iterations, each starting one character after the one before, and ended
\* with text left over.
C30_Witness ==
    /\ cpc = "done"
    /\ chunk_size = 2
    /\ overlap_size = 4
    /\ max_chunks = 3
    /\ chunk_index = 4
    /\ start_idx = 3
    /\ start_idx < Len(content)

\* number of document characters in a chunk's payload: the payload without
\* the header line and the overlap marker
DocLen(c) ==
    Cardinality({i \in DOMAIN c.chunk_text : c.chunk_text[i] \in Range(Alphabet)})

\* C21: every returned chunk carries at most chunk_size + overlap_size
\* document characters, the last chunk included when the maximum chunk count
\* stopped the loop.
C21_EveryChunkSizeBounded ==
    Returned =>
        \A i \in 1 .. Len(chunks) :
            DocLen(chunks[i]) <= chunk_size + overlap_size

(***************************************************************************)
(* Field maps.  A field name or value is a string, modelled as a sequence  *)
(* of one-character strings; the dict a chunk yields is the sequence of    *)
(* its (key, value) items in insertion order, with pairwise different keys.*)
(***************************************************************************)
Str_k == <<"k">>
Str_sp_k == <<" ", "k">>
Str_m == <<"m">>
Str_empty == <<>>
Str_sp == <<" ">>
Str_a == <<"a">>
Str_a_sp == <<"a", " ">>
Str_b == <<"b">>

FieldKeys == {Str_k, Str_sp_k, Str_m}
FieldValues == {Str_empty, Str_sp, Str_a, Str_a_sp, Str_b}

\* the dicts a chunk may yield: every dict of at most one item, and dicts of
\* several items with blank values, colliding keys and independent fields
FieldMaps ==
    {<<>>}
    \cup {<<<<k, v>>>> : k \in FieldKeys, v \in FieldValues}
    \cup {<<<<Str_k, Str_a>>, <<Str_m, Str_b>>>>,
          <<<<Str_k, Str_empty>>, <<Str_m, Str_sp>>>>,
          <<<<Str_k, Str_sp>>, <<Str_m, Str_b>>>>,
          <<<<Str_sp_k, Str_a>>, <<Str_k, Str_b>>>>,
          <<<<Str_k, Str_a>>, <<Str_sp_k, Str_a_sp>>>>,
          <<<<Str_sp_k, Str_b>>, <<Str_k, Str_sp>>, <<Str_m, Str_a>>>>}

\* settings.DEFAULT_CELL_SEPARATOR
DEFAULT_CELL_SEPARATOR == ";"

\* str.strip(): leading and trailing white space removed
RECURSIVE LStrip(_)
LStrip(s) == IF s # <<>> /\ Head(s) = " " THEN LStrip(Tail(s)) ELSE s

RECURSIVE RStrip(_)
RStrip(s) ==
    IF s # <<>> /\ s[Len(s)] = " " THEN RStrip(SubSeq(s, 1, Len(s) - 1)) ELSE s

Strip(s) == RStrip(LStrip(s))

\* SafeStringOperations.safe_string_operation(value, "strip")
SafeStrip(s) == Strip(s)

\* the values a separator-joined cell holds
PartsOf(s, sep) ==
    {SubSeq(s, i, j) : <<i, j>> \in
        {<<i, j>> \in (1 .. Len(s) + 1) \X (0 .. Len(s)) :
            /\ i <= j + 1
            /\ i = 1 \/ s[i - 1] = sep
            /\ j = Len(s) \/ s[j + 1] = sep
            /\ \A x \in i .. j : s[x] # sep}}

\* DataUtils.combine_values_with_separator: the new value joined onto the
\* current one with the separator, unless the cell already holds it
CombineValuesWithSeparator(current_value, new_value, sep) ==
    IF new_value \in PartsOf(current_value, sep)
    THEN current_value
    ELSE current_value \o <<sep>> \o new_value

\* combined_data[key] = value
DictPut(d, key, value) ==
    [x \in DOMAIN d \cup {key} |-> IF x = key THEN value ELSE d[x]]

(***************************************************************************)
(* ChunkResult and TransformationResult.                                   *)
(***************************************************************************)
\* ChunkResult's default for extracted_data: an empty field map
DefaultExtractedData == <<>>

ChunkResult(id, ok, data, error) ==
    [chunk_id |-> id, success |-> ok, extracted_data |-> data,
     error_message |-> error]

TransformationResult(ok, data, error) ==
    [success |-> ok, transformed_data |-> data, error_message |-> error]

(***************************************************************************)
(* combine_chunk_results.                                                  *)
(***************************************************************************)
\* the filter `r.success and r.extracted_data`
Usable(r) == r.success /\ r.extracted_data # <<>>

\* the body of the inner loop with the values left untrimmed
MergeItemMutNoStrip(cd, key, value, sep) ==
    LET safe_key == SafeStrip(key)
        safe_value == value
    IN  IF safe_value = <<>> THEN cd
        ELSE IF safe_key \notin DOMAIN cd \/ cd[safe_key] = <<>>
             THEN DictPut(cd, safe_key, safe_value)
             ELSE DictPut(cd, safe_key,
                     CombineValuesWithSeparator(cd[safe_key], safe_value, sep))

\* the body of the inner loop without `if not safe_value: continue`
MergeItemMutNoSkip(cd, key, value, sep) ==
    LET safe_key == SafeStrip(key)
        safe_value == SafeStrip(value)
    IN  IF safe_key \notin DOMAIN cd \/ cd[safe_key] = <<>>
        THEN DictPut(cd, safe_key, safe_value)
        ELSE IF safe_value # <<>>
             THEN DictPut(cd, safe_key,
                     CombineValuesWithSeparator(cd[safe_key], safe_value, sep))
             ELSE cd

\* the body of the inner loop, for one (key, value) item of a chunk
MergeItem(cd, key, value, sep) ==
    LET safe_key == SafeStrip(key)
        safe_value == SafeStrip(value)
    IN  IF safe_value = <<>> THEN cd
        ELSE IF safe_key \notin DOMAIN cd \/ cd[safe_key] = <<>>
             THEN DictPut(cd, safe_key, safe_value)
             ELSE DictPut(cd, safe_key,
                     CombineValuesWithSeparator(cd[safe_key], safe_value, sep))

\* the early return taken when no usable outcome remains
NoUsableResultsMutNever(list) == FALSE

NoUsableResults(list) == list = <<>>

CombineFailure ==
    TransformationResult(FALSE, NoneValue,
        "Keine erfolgreichen Chunk-Ergebnisse zum Kombinieren")

CombineSuccess(cd) == TransformationResult(TRUE, cd, NoneStr)

CombineCall ==
    /\ kpc = "call"
    /\ LET successful == SelectSeq(chunk_results, Usable)
       IN  /\ successful_results' = successful
           /\ IF NoUsableResults(successful)
              THEN /\ combination_result' = CombineFailure
                   /\ kpc' = "done"
              ELSE /\ combination_result' = combination_result
                   /\ kpc' = "loop"
    /\ combined_data' = EmptyDict
    /\ res_i' = 1
    /\ item_i' = 1
    /\ UNCHANGED chunk_results
    /\ UNCHANGED <<chunkVars, pipeVars, threadVars, utilVars,
                   transformVars>>

\* one pass of `for key, value in chunk_data.items()`
CombineItem ==
    /\ kpc = "loop"
    /\ res_i <= Len(successful_results)
    /\ item_i <= Len(successful_results[res_i].extracted_data)
    /\ LET item == successful_results[res_i].extracted_data[item_i]
       IN  combined_data' =
               MergeItem(combined_data, item[1], item[2], DEFAULT_CELL_SEPARATOR)
    /\ item_i' = item_i + 1
    /\ UNCHANGED <<chunk_results, successful_results, res_i,
                   combination_result, kpc>>
    /\ UNCHANGED <<chunkVars, pipeVars, threadVars, utilVars,
                   transformVars>>

\* `for result in successful_results`: on to the next chunk's outcome
CombineNextResult ==
    /\ kpc = "loop"
    /\ res_i <= Len(successful_results)
    /\ item_i > Len(successful_results[res_i].extracted_data)
    /\ res_i' = res_i + 1
    /\ item_i' = 1
    /\ UNCHANGED <<chunk_results, successful_results, combined_data,
                   combination_result, kpc>>
    /\ UNCHANGED <<chunkVars, pipeVars, threadVars, utilVars,
                   transformVars>>

CombineReturn ==
    /\ kpc = "loop"
    /\ res_i > Len(successful_results)
    /\ combination_result' = CombineSuccess(combined_data)
    /\ kpc' = "done"
    /\ UNCHANGED <<chunk_results, successful_results, combined_data, res_i,
                   item_i>>
    /\ UNCHANGED <<chunkVars, pipeVars, threadVars, utilVars,
                   transformVars>>

\* the same computation as one value: the merge of a chunk's items, of a
\* list of outcomes, and the result of combine_chunk_results
RECURSIVE MergeItems(_, _)
MergeItems(cd, items) ==
    IF items = <<>> THEN cd
    ELSE MergeItems(MergeItem(cd, Head(items)[1], Head(items)[2],
                              DEFAULT_CELL_SEPARATOR),
                    Tail(items))

RECURSIVE MergeResults(_, _)
MergeResults(cd, list) ==
    IF list = <<>> THEN cd
    ELSE MergeResults(MergeItems(cd, Head(list).extracted_data), Tail(list))

CombineChunkResults(list) ==
    LET successful == SelectSeq(list, Usable)
    IN  IF NoUsableResults(successful)
        THEN CombineFailure
        ELSE CombineSuccess(MergeResults(EmptyDict, successful))

\* the outcomes the chunk executor can hand to the combiner: a failure
\* carries no field map
CombinerInputs ==
    {ChunkResult("CHUNK", FALSE, DefaultExtractedData, "error")}
    \cup {ChunkResult("CHUNK", TRUE, d, NoneStr) : d \in FieldMaps}

\* most outcomes in one list given to the combiner
MaxResults == 3

SeqsUpTo(S, n) == UNION {[1 .. m -> S] : m \in 0 .. n}

InitCombine ==
    /\ ChunksIdle
    /\ PipeIdle
    /\ ThreadsIdle
    /\ UtilsIdle
    /\ TransformIdle
    /\ chunk_results \in SeqsUpTo(CombinerInputs, MaxResults)
    /\ successful_results = <<>>
    /\ combined_data = EmptyDict
    /\ res_i = 1
    /\ item_i = 1
    /\ combination_result = NoneValue
    /\ kpc = "call"

NextCombine ==
    \/ CombineCall
    \/ CombineItem
    \/ CombineNextResult
    \/ CombineReturn

SpecCombine == InitCombine /\ [][NextCombine]_vars

(***************************************************************************)
(* Claims about combine_chunk_results (specification SpecCombine).         *)
(***************************************************************************)
\* empty or white space only
IsBlank(v) == \A i \in 1 .. Len(v) : v[i] = " "

Populated(d, f) == f \in DOMAIN d /\ ~IsBlank(d[f])

\* the item the inner loop is about to merge
AtItem ==
    /\ kpc = "loop"
    /\ res_i <= Len(successful_results)
    /\ item_i <= Len(successful_results[res_i].extracted_data)

CurrentItem == successful_results[res_i].extracted_data[item_i]

\* C7: while the combiner merges, a field of the combined record that holds
\* a non-empty value holds a non-empty value after every later merge, and
\* merging an empty or white-space-only chunk value leaves the combined
\* record as it was.
C7_PopulatedStaysAndBlankIgnored ==
    [][ /\ (kpc = "loop") =>
               \A f \in DOMAIN combined_data :
                   Populated(combined_data, f) => Populated(combined_data', f)
        /\ (AtItem /\ IsBlank(CurrentItem[2]) /\ item_i' = item_i + 1) =>
               combined_data' = combined_data
      ]_vars

\* C7 witness: field "k" was populated by an earlier chunk and a blank value
\* for "k" of a later chunk has just been merged.
C7_Witness ==
    /\ kpc = "loop"
    /\ res_i = 2
    /\ item_i = 2
    /\ successful_results[2].extracted_data[1][1] = Str_k
    /\ IsBlank(successful_results[2].extracted_data[1][2])
    /\ Populated(combined_data, Str_k)

\* C8: the combiner returns success only with a record that has at least one
\* field; when the usable outcomes contribute no non-empty value it fails
\* with an error instead of returning an empty record.
C8_NoEmptyRecord ==
    (kpc = "done" /\ combination_result.success) =>
        /\ combination_result.transformed_data # NoneValue
        /\ DOMAIN combination_result.transformed_data # {}

\* two partial records conflict when some field, as the combiner names it
\* (trimmed), has different non-empty (trimmed) values in them
Conflict(a, b) ==
    \E i \in 1 .. Len(a), j \in 1 .. Len(b) :
        /\ Strip(a[i][1]) = Strip(b[j][1])
        /\ ~IsBlank(a[i][2])
        /\ ~IsBlank(b[j][2])
        /\ Strip(a[i][2]) # Strip(b[j][2])

TwoRecordsCombined ==
    /\ kpc = "done"
    /\ Len(chunk_results) = 2
    /\ chunk_results[1].success
    /\ chunk_results[2].success
    /\ ~Conflict(chunk_results[1].extracted_data,
                 chunk_results[2].extracted_data)

PipeMaxLen == 4
\* settings.PROCESSING_MAX_CHUNK_SIZE, scaled: longer documents are chunked
PROCESSING_MAX_CHUNK_SIZE == 1
\* settings.PROCESSING_LARGE_FILE_CHUNK_SIZE, scaled: create_chunks' chunk_size
PROCESSING_LARGE_FILE_CHUNK_SIZE == 2
\* the default overlap_size of create_chunks, scaled
DEFAULT_OVERLAP_SIZE == 4
\* number of documents one orchestrator is given
MaxDocs == 2

\* chunk_results of a ProcessingResult built without that argument
DefaultChunkResults == <<>>

ProcessingResult(ok, data, error, results) ==
    [success |-> ok, mine_data |-> data, error_message |-> error,
     chunk_results |-> results]

\* the field maps json.loads yields from a response in this model
ResponseData == {<<>>, <<<<Str_k, Str_sp>>>>, <<<<Str_k, Str_a>>>>}

\* api_client_manager.config.use_openrouter_for_all, model_order,
\* has_openrouter() and config.extraction_strategy ("absent": no attribute)
CascadeConfigs ==
    {[use_openrouter_for_all |-> TRUE, model_order |-> <<"model-1", "model-2">>,
      has_openrouter |-> TRUE],
     [use_openrouter_for_all |-> FALSE, model_order |-> <<"model-1", "model-2">>,
      has_openrouter |-> TRUE],
     [use_openrouter_for_all |-> TRUE, model_order |-> <<>>,
      has_openrouter |-> TRUE],
     [use_openrouter_for_all |-> TRUE, model_order |-> <<"model-1", "model-2">>,
      has_openrouter |-> FALSE]}

Strategies == {"absent", "direct", "agents_per_field", "hybrid"}

Configs ==
    {[use_openrouter_for_all |-> c.use_openrouter_for_all,
      model_order |-> c.model_order,
      has_openrouter |-> c.has_openrouter,
      extraction_strategy |-> st] : c \in CascadeConfigs, st \in Strategies}

\* the test `if self.abort_processing` at the top of a loop iteration
AbortObservedMutNever(flag) == FALSE

AbortObserved(flag) == flag

\* the guard of the model-cascade call
CascadeEnabledMutAnyModels(cfg) ==
    cfg.use_openrouter_for_all /\ cfg.has_openrouter

CascadeEnabled(cfg) ==
    cfg.use_openrouter_for_all /\ cfg.model_order # <<>> /\ cfg.has_openrouter

\* the outcomes _process_single_chunk returns
AbortedOutcome(chunk) ==
    ChunkResult(chunk.chunk_id, FALSE, DefaultExtractedData,
                "Verarbeitung abgebrochen")

UpstreamFailureOutcome(chunk) ==
    ChunkResult(chunk.chunk_id, FALSE, DefaultExtractedData, "upstream error")

ParsedOutcome(chunk, data) ==
    ChunkResult(chunk.chunk_id, TRUE, data, NoneStr)

CascadeParsedOutcomeMutFlag(chunk, data) ==
    ChunkResult(chunk.chunk_id, FALSE, data, NoneStr)

CascadeParsedOutcome(chunk, data) ==
    ChunkResult(chunk.chunk_id, TRUE, data, NoneStr)

NoJsonOutcome(chunk) ==
    ChunkResult(chunk.chunk_id, FALSE, DefaultExtractedData,
                "Kein gueltiges JSON in API-Response gefunden")

ExceptionOutcome(chunk) ==
    ChunkResult(chunk.chunk_id, FALSE, DefaultExtractedData,
                "Chunk-Verarbeitung fehlgeschlagen")

\* the failure the loop itself records when the executor call raises
LoopFailureOutcome(chunk) ==
    ChunkResult(chunk.chunk_id, FALSE, EmptyDict, "exception")

\* a call as the API client receives it
ApiCall(chunk, kind, flag) ==
    [chunk_id |-> chunk.chunk_id, kind |-> kind, abort_set |-> flag]

\* the model-cascade call as the API client receives it; `after` is what
\* the executor has made of the primary call when it issues this one
CascadeCall(chunk, flag, answer) ==
    [chunk_id |-> chunk.chunk_id, kind |-> "cascade", abort_set |-> flag,
     after |-> answer]

\* the loop's except branch left without its append
RecordMutRaisedNotRecorded(outcome, raised) ==
    /\ chunk_results' =
           IF raised THEN chunk_results ELSE Append(chunk_results, outcome)
    /\ loop_i' = loop_i + 1
    /\ xpc' = "idle"

\* `results.append(result)` and on to the next iteration; when the call of
\* the executor raised instead, the loop records its own failure outcome
Record(outcome, raised) ==
    /\ chunk_results' =
           Append(chunk_results,
                  IF raised THEN LoopFailureOutcome(chunks[loop_i]) ELSE outcome)
    /\ loop_i' = loop_i + 1
    /\ xpc' = "idle"

PipeFrame ==
    UNCHANGED <<content, chunk_size, overlap_size, cfg_max, start_idx,
                chunk_index, max_chunks, cpc, successful_results,
                combined_data, res_i, item_i, kpc, use_chunks, config,
                doc_no, threadVars, utilVars,
                transformVars>>

\* abort() is not called in this step
NoAbortCall == UNCHANGED abort_doc

\* process_content up to the branch: the language analysis of the document
\* stands before the try block, then the path is chosen and, on the chunked
\* path, the chunks are created
ProcessContentCall ==
    /\ ppc = "call"
    /\ \E analysis_raises \in BOOLEAN :
        IF analysis_raises
        THEN /\ ppc' = "raised"
             /\ UNCHANGED <<chunks, chunk_results>>
        ELSE IF (IF use_chunks = NoneStr
                 THEN Len(content) > PROCESSING_MAX_CHUNK_SIZE
                 ELSE use_chunks = "True")
             THEN /\ chunks' = CreateChunks(content,
                                   PROCESSING_LARGE_FILE_CHUNK_SIZE,
                                   DEFAULT_OVERLAP_SIZE, cfg_max)
                  /\ chunk_results' = <<>>
                  /\ ppc' = "loop"
             ELSE /\ ppc' = "direct"
                  /\ UNCHANGED <<chunks, chunk_results>>
    /\ loop_i' = 1
    /\ UNCHANGED <<abort_processing, agent_manager, xpc, api_calls,
                   backfill_calls, processing_result, combination_result>>
    /\ NoAbortCall
    /\ PipeFrame

\* the top of one iteration of `for i, chunk in enumerate(chunks, 1)`
LoopTop ==
    /\ ppc = "loop"
    /\ xpc = "idle"
    /\ IF loop_i > Len(chunks) \/ AbortObserved(abort_processing)
       THEN /\ ppc' = "combine"
            /\ xpc' = "idle"
       ELSE /\ ppc' = "loop"
            /\ xpc' = "entered"
    /\ UNCHANGED <<chunks, chunk_results, abort_processing, agent_manager,
                   loop_i, api_calls, backfill_calls, processing_result,
                   combination_result>>
    /\ NoAbortCall
    /\ PipeFrame

\* _process_single_chunk from its start to the primary call: the abort
\* check, the content analysis and table search (which may raise), the
\* payload, and call_api_with_fallback being issued
ExecutorStart ==
    /\ ppc = "loop"
    /\ xpc = "entered"
    /\ \E raises \in BOOLEAN, escaped \in BOOLEAN :
        IF abort_processing
        THEN /\ Record(AbortedOutcome(chunks[loop_i]), escaped)
             /\ api_calls' = api_calls
        ELSE IF raises
        THEN /\ Record(ExceptionOutcome(chunks[loop_i]), escaped)
             /\ api_calls' = api_calls
        ELSE /\ api_calls' = Append(api_calls,
                   ApiCall(chunks[loop_i], "primary", abort_processing))
             /\ xpc' = "primary"
             /\ UNCHANGED <<chunk_results, loop_i>>
    /\ UNCHANGED <<chunks, abort_processing, agent_manager, ppc,
                   backfill_calls, processing_result, combination_result>>
    /\ NoAbortCall
    /\ PipeFrame

\* call_api_with_fallback returns (or raises); the response is searched for
\* JSON; without JSON, the model cascade is called when it is enabled
PrimaryReturns ==
    /\ ppc = "loop"
    /\ xpc = "primary"
    /\ \E answer \in {"raises", "failure", "json", "no_json"},
          data \in ResponseData, escaped \in BOOLEAN,
          cascade_guard_raises \in BOOLEAN :
        CASE answer = "raises" ->
                /\ Record(ExceptionOutcome(chunks[loop_i]), escaped)
                /\ api_calls' = api_calls
          [] answer = "failure" ->
                /\ Record(UpstreamFailureOutcome(chunks[loop_i]), escaped)
                /\ api_calls' = api_calls
          [] answer = "json" ->
                /\ Record(ParsedOutcome(chunks[loop_i], data), escaped)
                /\ api_calls' = api_calls
          [] OTHER ->
                IF ~cascade_guard_raises /\ CascadeEnabled(config)
                THEN /\ api_calls' = Append(api_calls,
                           CascadeCall(chunks[loop_i], abort_processing, answer))
                     /\ xpc' = "cascade"
                     /\ UNCHANGED <<chunk_results, loop_i>>
                ELSE /\ Record(NoJsonOutcome(chunks[loop_i]), escaped)
                     /\ api_calls' = api_calls
    /\ UNCHANGED <<chunks, abort_processing, agent_manager, ppc,
                   backfill_calls, processing_result, combination_result>>
    /\ NoAbortCall
    /\ PipeFrame

\* call_with_model_fallback returns (or raises, which is swallowed)
CascadeReturns ==
    /\ ppc = "loop"
    /\ xpc = "cascade"
    /\ \E answer \in {"raises", "failure", "json", "no_json"},
          data \in ResponseData, escaped \in BOOLEAN :
        IF answer = "json"
        THEN Record(CascadeParsedOutcome(chunks[loop_i], data), escaped)
        ELSE Record(NoJsonOutcome(chunks[loop_i]), escaped)
    /\ UNCHANGED <<chunks, abort_processing, agent_manager, ppc, api_calls,
                   backfill_calls, processing_result, combination_result>>
    /\ NoAbortCall
    /\ PipeFrame

\* ChunkProcessor.abort, called from another thread at any time
Abort ==
    /\ ppc \in {"call", "loop", "combine", "direct"}
    /\ ~abort_processing
    /\ abort_processing' = TRUE
    /\ abort_doc' = doc_no
    /\ UNCHANGED <<chunks, chunk_results, agent_manager, ppc, loop_i, xpc,
                   api_calls, backfill_calls, processing_result,
                   combination_result>>
    /\ PipeFrame

\* the backfill branch is taken for these strategy values
BackfillStrategyMutAlways(cfg) == TRUE

BackfillStrategy(cfg) ==
    cfg.extraction_strategy \in {"absent", "agents_per_field", "hybrid"}

\* _process_with_chunks after the loop: combination, name matching, the
\* backfill pass and the typed record; an exception that escapes is turned
\* into a failed result by process_content
FinishChunked ==
    /\ ppc = "combine"
    /\ LET combination == CombineChunkResults(chunk_results)
       IN  /\ combination_result' = combination
           /\ IF ~combination.success
              THEN /\ processing_result' =
                         ProcessingResult(FALSE, NoneValue,
                                          combination.error_message,
                                          chunk_results)
                   /\ UNCHANGED <<agent_manager, backfill_calls>>
              ELSE \E manager_raises \in BOOLEAN,
                      backfill \in {"same", "more", "raises"},
                      from_dict_raises \in BOOLEAN :
                     LET final_data == combination.transformed_data
                         construct == BackfillStrategy(config)
                                      /\ agent_manager = NoneStr
                         called == BackfillStrategy(config)
                                   /\ ~(construct /\ manager_raises)
                         filled == IF called /\ backfill = "more"
                                   THEN DictPut(final_data, Str_m, Str_b)
                                   ELSE final_data
                     IN  /\ agent_manager' =
                               IF construct /\ ~manager_raises
                               THEN "AgentManager" ELSE agent_manager
                         /\ backfill_calls' =
                               IF called THEN backfill_calls + 1
                               ELSE backfill_calls
                         /\ processing_result' =
                               IF from_dict_raises
                               THEN ProcessingResult(FALSE, NoneValue,
                                        "Verarbeitung fehlgeschlagen", DefaultChunkResults)
                               ELSE ProcessingResult(TRUE, filled, NoneStr,
                                                     chunk_results)
    /\ ppc' = "done"
    /\ UNCHANGED <<chunks, chunk_results, abort_processing, loop_i, xpc,
                   api_calls>>
    /\ NoAbortCall
    /\ PipeFrame

\* _process_without_chunks: one API call over the whole document, the
\* transformation, name matching and the typed record
DirectPath ==
    /\ ppc = "direct"
    /\ api_calls' = Append(api_calls,
           [chunk_id |-> "DOCUMENT", kind |-> "direct",
            abort_set |-> abort_processing])
    /\ \E answer \in {"raises", "failure", "json", "no_json"},
          data \in ResponseData, from_dict_raises \in BOOLEAN :
        processing_result' =
            CASE answer = "raises" ->
                    ProcessingResult(FALSE, NoneValue,
                                     "Verarbeitung fehlgeschlagen", DefaultChunkResults)
              [] answer = "failure" ->
                    ProcessingResult(FALSE, NoneValue, "upstream error",
                                     DefaultChunkResults)
              [] answer = "no_json" ->
                    ProcessingResult(FALSE, NoneValue,
                                     "Kein JSON in API-Response gefunden",
                                     DefaultChunkResults)
              [] OTHER ->
                    IF from_dict_raises
                    THEN ProcessingResult(FALSE, NoneValue,
                                          "Verarbeitung fehlgeschlagen", DefaultChunkResults)
                    ELSE ProcessingResult(TRUE, data, NoneStr, DefaultChunkResults)
    /\ ppc' = "done"
    /\ UNCHANGED <<chunks, chunk_results, abort_processing, agent_manager,
                   loop_i, xpc, backfill_calls, combination_result>>
    /\ NoAbortCall
    /\ PipeFrame

\* the same orchestrator is given the next document: process_content is
\* called again, with fresh arguments and locals; the fields of the
\* orchestrator and of its chunk processor are as the last call left them
NextDocument ==
    /\ ppc \in {"done", "raised"}
    /\ doc_no < MaxDocs
    /\ doc_no' = doc_no + 1
    /\ content' \in {Doc(n) : n \in 0 .. PipeMaxLen}
    /\ use_chunks' \in {NoneStr, "True", "False"}
    /\ chunks' = <<>>
    /\ chunk_results' = <<>>
    /\ combination_result' = NoneValue
    /\ ppc' = "call"
    /\ loop_i' = 1
    /\ xpc' = "idle"
    /\ api_calls' = <<>>
    /\ backfill_calls' = 0
    /\ processing_result' = NoneValue
    /\ UNCHANGED <<abort_processing, agent_manager, config, abort_doc>>
    /\ UNCHANGED <<chunk_size, overlap_size, cfg_max, start_idx, chunk_index,
                   max_chunks, cpc, successful_results, combined_data, res_i,
                   item_i, kpc, threadVars, utilVars,
                   transformVars>>

Init ==
    /\ content \in {Doc(n) : n \in 0 .. PipeMaxLen}
    /\ chunk_size = PROCESSING_LARGE_FILE_CHUNK_SIZE
    /\ overlap_size = DEFAULT_OVERLAP_SIZE
    /\ cfg_max = [kind |-> "absent", value |-> 0]
    /\ chunks = <<>>
    /\ start_idx = 0
    /\ chunk_index = 1
    /\ max_chunks = 0
    /\ cpc = "idle"
    /\ CombineIdle
    /\ use_chunks \in {NoneStr, "True", "False"}
    /\ config \in Configs
    /\ abort_processing = FALSE
    /\ agent_manager = NoneStr
    /\ ppc = "call"
    /\ loop_i = 1
    /\ xpc = "idle"
    /\ api_calls = <<>>
    /\ backfill_calls = 0
    /\ processing_result = NoneValue
    /\ doc_no = 1
    /\ abort_doc = 0
    /\ ThreadsIdle
    /\ UtilsIdle
    /\ TransformIdle

Next ==
    \/ ProcessContentCall
    \/ LoopTop
    \/ ExecutorStart
    \/ PrimaryReturns
    \/ CascadeReturns
    \/ Abort
    \/ FinishChunked
    \/ DirectPath
    \/ NextDocument

Spec == Init /\ [][Next]_vars

(***************************************************************************)
(* Claims about the chunk loop, the chunk executor and process_content     *)
(* (specification Spec).                                                   *)
(***************************************************************************)
\* the loop stands at the top of an iteration
AtLoopTop == ppc = "loop" /\ xpc = "idle"

\* process_content took the chunked path
ChunkedPath ==
    IF use_chunks = "None" THEN Len(content) > PROCESSING_MAX_CHUNK_SIZE
    ELSE use_chunks = "True"

\* C4: once the abort flag is set, no chunk whose loop iteration starts
\* afterwards is executed, and process_chunks_async returns exactly the
\* outcomes collected up to then: outcome i belongs to chunk i, in chunk
\* order, and there is no outcome for a later chunk.
C4_AbortStopsLoop ==
    /\ [](\A i \in 1 .. Len(chunk_results) :
              /\ i <= Len(chunks)
              /\ chunk_results[i].chunk_id = chunks[i].chunk_id)
    /\ [][ (AtLoopTop /\ abort_processing) =>
               /\ ppc' = "combine"
               /\ xpc' = "idle"
               /\ chunk_results' = chunk_results
               /\ api_calls' = api_calls ]_vars
    /\ [][ (ppc = "combine") => chunk_results' = chunk_results ]_vars

\* C4 witness: the flag was set after chunk 2 of 3; the loop has ended with
\* the outcomes of chunks 1 and 2 only.
C4_Witness ==
    /\ ppc = "combine"
    /\ abort_processing
    /\ Len(chunks) = 3
    /\ Len(chunk_results) = 2
    /\ chunk_results[2].chunk_id = "CHUNK-2"
    /\ Len(api_calls) >= 2

\* C5: the executor issues no API call, primary or cascade, while the abort
\* flag is set: a call about to be issued with the flag set is not made.
C5_NoCallOnceAborted ==
    \A i \in 1 .. Len(api_calls) :
        api_calls[i].kind \in {"primary", "cascade"} => ~api_calls[i].abort_set

\* C6: on the chunked path, when no chunk outcome is successful (also when
\* there is no outcome at all), process_content returns a failed result with
\* an error message and without a record.
C6_NoSuccessNoRecord ==
    (/\ ppc = "done"
     /\ ChunkedPath
     /\ \A i \in 1 .. Len(chunk_results) : ~chunk_results[i].success) =>
        /\ processing_result.success = FALSE
        /\ processing_result.error_message # "None"
        /\ processing_result.mine_data = NoneValue

\* C6 witness: three chunks, all failed, and the failed result returned.
C6_Witness ==
    /\ ppc = "done"
    /\ ChunkedPath
    /\ Len(chunk_results) = 3
    /\ \A i \in 1 .. 3 : ~chunk_results[i].success
    /\ processing_result.success = FALSE

\* C10: every outcome with success = false, whichever failure path made it
\* (abort, upstream failure, no valid JSON, caught exception), has an empty
\* field map.
C10_FailureHasNoData ==
    \A i \in 1 .. Len(chunk_results) :
        ~chunk_results[i].success =>
            Len(chunk_results[i].extracted_data) = 0

\* C10 witness: an upstream failure, a response without JSON and an aborted
\* chunk have been recorded.
C10_Witness ==
    /\ Len(chunk_results) = 3
    /\ chunk_results[1].error_message = "upstream error"
    /\ chunk_results[2].error_message = "Kein gueltiges JSON in API-Response gefunden"
    /\ chunk_results[3].error_message = "Verarbeitung abgebrochen"

(***************************************************************************)
(* The backfill branch of _process_with_chunks run by several threads on    *)
(* one orchestrator (specification SpecThreads): the strategy test, the     *)
(* first test of agent_manager, _agent_manager_lock, the second test, the   *)
(* construction of the AgentManager and the call of fill_missing_fields.    *)
(* Reading and writing the attribute are single steps of the interpreter.   *)
(***************************************************************************)
\* number of threads in the branch at the same time
MaxThreads == 3

Threads == 1 .. MaxThreads

\* the n-th AgentManager instance constructed
InstanceOf(n) == "AgentManager-" \o ToString(n)

\* a thread at position pc, holding the instance it has just constructed
ThreadAt(pc, made) == [pc |-> pc, made |-> made]

\* `with self._agent_manager_lock` can be entered: no other thread holds it
LockFree(owner, t) == owner = 0 \/ owner = t

\* the second test `if self.agent_manager is None`, under the lock
UnsetUnderLockMutNoRecheck(manager) == TRUE

UnsetUnderLock(manager) == manager = NoneStr

ThreadFrame ==
    UNCHANGED <<chunkVars, combVars, use_chunks, config, abort_processing,
                ppc, loop_i, xpc, api_calls, backfill_calls,
                processing_result, doc_no, abort_doc, utilVars,
                transformVars>>

\* strategy = getattr(config, 'extraction_strategy', 'hybrid') and its test
EnterBranch(t) ==
    /\ tpc[t].pc = "strategy"
    /\ tpc' = [tpc EXCEPT ![t].pc =
                  IF BackfillStrategy(config) THEN "check" ELSE "skipped"]
    /\ UNCHANGED <<agent_manager, lock_owner, constructed, used>>
    /\ ThreadFrame

\* the first test `if self.agent_manager is None`, outside the lock
FirstCheck(t) ==
    /\ tpc[t].pc = "check"
    /\ tpc' = [tpc EXCEPT ![t].pc =
                  IF agent_manager = NoneStr THEN "acquire" ELSE "call"]
    /\ UNCHANGED <<agent_manager, lock_owner, constructed, used>>
    /\ ThreadFrame

\* entering the with block: the thread waits until the lock is free
Acquire(t) ==
    /\ tpc[t].pc = "acquire"
    /\ LockFree(lock_owner, t)
    /\ lock_owner' = t
    /\ tpc' = [tpc EXCEPT ![t].pc = "recheck"]
    /\ UNCHANGED <<agent_manager, constructed, used>>
    /\ ThreadFrame

\* the second test, and AgentManager(...) being evaluated when it is still
\* unset; a constructor that raises leaves the with block (the lock is
\* released) and the handler of the branch swallows the exception
Recheck(t) ==
    /\ tpc[t].pc = "recheck"
    /\ IF UnsetUnderLock(agent_manager)
       THEN \E raises \in BOOLEAN :
               IF raises
               THEN /\ tpc' = [tpc EXCEPT ![t].pc = "raised"]
                    /\ lock_owner' = IF lock_owner = t THEN 0 ELSE lock_owner
                    /\ constructed' = constructed
               ELSE /\ constructed' = constructed + 1
                    /\ tpc' = [tpc EXCEPT ![t] =
                                  ThreadAt("assign", InstanceOf(constructed + 1))]
                    /\ lock_owner' = lock_owner
       ELSE /\ tpc' = [tpc EXCEPT ![t].pc = "release"]
            /\ UNCHANGED <<lock_owner, constructed>>
    /\ UNCHANGED <<agent_manager, used>>
    /\ ThreadFrame

\* self.agent_manager = <the new instance>
Assign(t) ==
    /\ tpc[t].pc = "assign"
    /\ agent_manager' = tpc[t].made
    /\ tpc' = [tpc EXCEPT ![t].pc = "release"]
    /\ UNCHANGED <<lock_owner, constructed, used>>
    /\ ThreadFrame

\* leaving the with block
Release(t) ==
    /\ tpc[t].pc = "release"
    /\ lock_owner' = IF lock_owner = t THEN 0 ELSE lock_owner
    /\ tpc' = [tpc EXCEPT ![t].pc = "call"]
    /\ UNCHANGED <<agent_manager, constructed, used>>
    /\ ThreadFrame

\* self.agent_manager.fill_missing_fields(...): the attribute is read and the
\* method of what it holds is called (on None: AttributeError, swallowed)
CallFillMissingFields(t) ==
    /\ tpc[t].pc = "call"
    /\ used' = [used EXCEPT ![t] = agent_manager]
    /\ tpc' = [tpc EXCEPT ![t].pc = "done"]
    /\ UNCHANGED <<agent_manager, lock_owner, constructed>>
    /\ ThreadFrame

InitThreads ==
    /\ ChunksIdle
    /\ CombineIdle
    /\ UtilsIdle
    /\ TransformIdle
    /\ use_chunks = "True"
    /\ config \in Configs
    /\ abort_processing = FALSE
    /\ agent_manager = NoneStr
    /\ ppc = "idle"
    /\ loop_i = 1
    /\ xpc = "idle"
    /\ api_calls = <<>>
    /\ backfill_calls = 0
    /\ processing_result = NoneValue
    /\ doc_no = 1
    /\ abort_doc = 0
    /\ tpc = [t \in Threads |-> ThreadAt("strategy", NoneStr)]
    /\ lock_owner = 0
    /\ constructed = 0
    /\ used = [t \in Threads |-> "not called"]

NextThreads ==
    \E t \in Threads :
        \/ EnterBranch(t)
        \/ FirstCheck(t)
        \/ Acquire(t)
        \/ Recheck(t)
        \/ Assign(t)
        \/ Release(t)
        \/ CallFillMissingFields(t)

SpecThreads == InitThreads /\ [][NextThreads]_vars

(***************************************************************************)
(* Claims about process_content as a whole, about the orchestrator across  *)
(* documents (specification Spec) and about the backfill collaborator       *)
(* under threads (specification SpecThreads).                               *)
(***************************************************************************)
\* C11: process_content never lets an exception reach its caller, whichever
\* stage faults (the initial content analysis included), and what it returns
\* is a ProcessingResult: success with a record, or failure with an error.
C11_NeverPropagates ==
    /\ ppc # "raised"
    /\ ppc = "done" =>
           IF processing_result.success
           THEN processing_result.mine_data # NoneValue
           ELSE processing_result.error_message # NoneStr

\* C12: on the chunked path a failed result returned after chunk outcomes
\* were produced carries those outcomes, in order.
C12_FailureCarriesOutcomes ==
    (/\ ppc = "done"
     /\ ChunkedPath
     /\ ~processing_result.success
     /\ Len(chunk_results) > 0) =>
        processing_result.chunk_results = chunk_results

\* C19: a document during which abort() was not called has all its chunks
\* executed, also when abort() was called during an earlier document of the
\* same orchestrator.
C19_NextDocumentRunsNormally ==
    (ppc = "combine" /\ abort_doc # doc_no) =>
        /\ Len(chunk_results) = Len(chunks)
        /\ \A i \in 1 .. Len(chunk_results) :
               chunk_results[i].error_message # "Verarbeitung abgebrochen"

\* C20 as stated: fill_missing_fields is invoked only on the chunked path,
\* only after a successful combination, and only when the strategy in force
\* is hybrid (the value taken when the configuration names none).
C20_BackfillOnlyHybrid ==
    backfill_calls > 0 =>
        /\ ChunkedPath
        /\ combination_result # NoneValue
        /\ combination_result.success
        /\ config.extraction_strategy \in {"hybrid", "absent"}

\* C20 amended: fill_missing_fields is invoked only on the chunked path, only
\* after a successful combination, and only when the strategy in force is
\* hybrid or agents_per_field; never on the direct path nor under any other
\* strategy value, and at most once per document.
C20_BackfillOnlyAgentStrategies ==
    /\ backfill_calls <= 1
    /\ backfill_calls > 0 =>
           /\ ChunkedPath
           /\ ppc = "done"
           /\ combination_result # NoneValue
           /\ combination_result.success
           /\ config.extraction_strategy \in {"hybrid", "agents_per_field",
                                               "absent"}

\* C20 witness: the backfill pass has run under agents_per_field.
C20_Witness ==
    /\ ppc = "done"
    /\ backfill_calls = 1
    /\ config.extraction_strategy = "agents_per_field"
    /\ processing_result.success

\* the positions in api_calls of the calls made for chunk i
CallsFor(i) ==
    {j \in 1 .. Len(api_calls) : api_calls[j].chunk_id = chunks[i].chunk_id}

\* C22: while the abort flag has not been set, the loop holds one outcome
\* for each chunk already gone through, in chunk order, whatever the outcome
\* is; it ends with one outcome per chunk; recording an outcome, a failure
\* included, leads to the next iteration; and an API call is issued for
\* chunk i + 1 only when the outcomes of chunks 1 .. i are recorded.
C22_OneOutcomePerChunk ==
    /\ []((ppc \in {"loop", "combine"} /\ ~abort_processing) =>
             /\ Len(chunk_results) = loop_i - 1
             /\ \A i \in 1 .. Len(chunk_results) :
                    chunk_results[i].chunk_id = chunks[i].chunk_id)
    /\ []((ppc = "combine" /\ ~abort_processing) =>
             Len(chunk_results) = Len(chunks))
    /\ [][ (ppc = "loop" /\ ~abort_processing
             /\ chunk_results' # chunk_results) =>
               /\ Len(chunk_results') = Len(chunk_results) + 1
               /\ SubSeq(chunk_results', 1, Len(chunk_results)) = chunk_results
               /\ ppc' = "loop"
               /\ xpc' = "idle"
               /\ loop_i' = loop_i + 1 ]_vars
    /\ [][ (ppc = "loop" /\ api_calls' # api_calls) =>
               /\ Len(api_calls') = Len(api_calls) + 1
               /\ api_calls'[Len(api_calls')].chunk_id =
                      chunks[Len(chunk_results) + 1].chunk_id
               /\ chunk_results' = chunk_results ]_vars

\* C22 witness: three chunks without abort; chunk 1 ended in an exception,
\* chunk 2 in an upstream failure, chunk 3 succeeded, and the loop is over.
C22_Witness ==
    /\ ppc = "combine"
    /\ ~abort_processing
    /\ Len(chunks) = 3
    /\ Len(chunk_results) = 3
    /\ chunk_results[1].error_message \in
           {"Chunk-Verarbeitung fehlgeschlagen", "exception"}
    /\ chunk_results[2].error_message = "upstream error"
    /\ chunk_results[3].success

\* C23: a chunk gets at most one primary call and at most one cascade call;
\* a cascade call directly follows the primary call of the same chunk, is
\* made only after a primary call that succeeded without parseable JSON, and
\* only under a configuration that enables the cascade with a non-empty model
\* list and an available provider; a chunk whose outcome is the upstream
\* failure got the primary call only.
C23_AtMostTwoCalls ==
    ppc \in {"loop", "combine", "done"} /\ ChunkedPath =>
        /\ \A i \in 1 .. Len(chunks) :
               /\ Cardinality({j \in CallsFor(i) :
                                   api_calls[j].kind = "primary"}) <= 1
               /\ Cardinality({j \in CallsFor(i) :
                                   api_calls[j].kind = "cascade"}) <= 1
               /\ Cardinality(CallsFor(i)) <= 2
        /\ \A j \in 1 .. Len(api_calls) :
               api_calls[j].kind = "cascade" =>
                   /\ j > 1
                   /\ api_calls[j - 1].kind = "primary"
                   /\ api_calls[j - 1].chunk_id = api_calls[j].chunk_id
                   /\ api_calls[j].after = "no_json"
                   /\ config.use_openrouter_for_all
                   /\ config.model_order # <<>>
                   /\ config.has_openrouter
        /\ \A i \in 1 .. Len(chunk_results) :
               chunk_results[i].error_message = "upstream error" =>
                   /\ Cardinality(CallsFor(i)) = 1
                   /\ \A j \in CallsFor(i) : api_calls[j].kind = "primary"

\* C23 witness: chunk 1 got the primary and the cascade call and succeeded
\* through the cascade; chunk 2 ended in the upstream failure after its one
\* primary call.
C23_Witness ==
    /\ ppc = "loop"
    /\ Len(chunk_results) = 2
    /\ Len(api_calls) = 3
    /\ api_calls[2].kind = "cascade"
    /\ chunk_results[1].success
    /\ chunk_results[2].error_message = "upstream error"

\* C29: on the chunked path, when the chunk loop was stopped by the abort
\* flag (it ended before the last chunk), fill_missing_fields is not invoked
\* for that document, also when the outcomes collected before the abort
\* combine successfully.
C29_NoBackfillAfterAbort ==
    (/\ ppc = "done"
     /\ ChunkedPath
     /\ abort_processing
     /\ loop_i <= Len(chunks)) =>
        backfill_calls = 0

\* C13: with agent_manager unset at the start and several threads in the
\* backfill branch, at most one AgentManager is ever constructed, every
\* fill_missing_fields call is made on that one instance (never on None, never
\* on a second one), and when all threads are through and no constructor
\* raised, exactly one was constructed and every thread has called it.
C13_OneSharedInstance ==
    /\ constructed <= 1
    /\ \A t \in Threads : used[t] \in {"not called", InstanceOf(1)}
    /\ (\A t \in Threads : tpc[t].pc = "done") =>
           /\ constructed = 1
           /\ \A t \in Threads : used[t] = InstanceOf(1)

\* C13 witness: all threads are through, thread 2 constructed the instance
\* and every thread has called fill_missing_fields on it.
C13_Witness ==
    /\ \A t \in Threads : tpc[t].pc = "done" /\ used[t] = InstanceOf(1)
    /\ constructed = 1
    /\ tpc[2].made = InstanceOf(1)

(***************************************************************************)
(* UnitConverter (utils/unit_converter.py) and JSONUtils (utils/helpers.py) *)
(* (specification SpecUtils).  A text is a sequence of one-character        *)
(* strings.  A float is modelled as the decimal number it stands for,       *)
(* mantissa times a power of ten; a confidence is given in hundredths.      *)
(***************************************************************************)
DigitChars == <<"0", "1", "2", "3", "4", "5", "6", "7", "8", "9">>

LowerCase ==
    <<"a", "b", "c", "d", "e", "f", "g", "h", "i", "j", "k", "l", "m",
      "n", "o", "p", "q", "r", "s", "t", "u", "v", "w", "x", "y", "z">>

UpperCase ==
    <<"A", "B", "C", "D", "E", "F", "G", "H", "I", "J", "K", "L", "M",
      "N", "O", "P", "Q", "R", "S", "T", "U", "V", "W", "X", "Y", "Z">>

\* \d
IsDigit(c) == c \in Range(DigitChars)

\* int(c) of one digit
DigitValue(c) == (CHOOSE i \in DOMAIN DigitChars : DigitChars[i] = c) - 1

\* [a-zA-Z]
IsLetter(c) == c \in Range(LowerCase) \cup Range(UpperCase)

\* [a-zA-Z²]
IsUnitChar(c) == IsLetter(c) \/ c = "²"

\* \s
IsSpace(c) == c \in {" ", "\t", "\n"}


\* str.lower() of one character, and of a text
LowerChar(c) ==
    IF c \in Range(UpperCase)
    THEN LowerCase[CHOOSE i \in DOMAIN UpperCase : UpperCase[i] = c]
    ELSE c

Lower(s) == [i \in DOMAIN s |-> LowerChar(s[i])]

\* s[i:j] in 1-based positions, j exclusive
Sub(s, i, j) == SubSeq(s, i, j - 1)

\* `sub in s` of two strings
Contains(s, sub) ==
    \E i \in 1 .. Len(s) - Len(sub) + 1 : Sub(s, i, i + Len(sub)) = sub

\* str.replace(old, new) for a one-character old and a new of length 0 or 1
RECURSIVE Replace(_, _, _)
Replace(s, old, new) ==
    IF s = <<>> THEN <<>>
    ELSE (IF Head(s) = old THEN new ELSE <<Head(s)>>)
         \o Replace(Tail(s), old, new)

\* the least member of a set of positions
MinOf(set) == CHOOSE k \in set : \A l \in set : k <= l

\* the end of the longest run of characters with property P that starts at
\* position i: the first position, from i on, whose character has not P
RunEnd(s, i, P(_)) ==
    IF \A k \in i .. Len(s) : P(s[k]) THEN Len(s) + 1
    ELSE CHOOSE k \in i .. Len(s) : ~P(s[k]) /\ \A l \in i .. k - 1 : P(s[l])

\* a decimal number: mantissa m times ten to the e
Dec(m, e) == [m |-> m, e |-> e]

RECURSIVE Pow10(_)
Pow10(n) == IF n = 0 THEN 1 ELSE 10 * Pow10(n - 1)

\* float multiplication
DecMul(a, b) == Dec(a.m * b.m, a.e + b.e)

\* the mantissa of a at the exponent e (e not above a.e)
MantissaAt(a, e) == a.m * Pow10(a.e - e)

\* a = b and a <= b of two floats
DecEq(a, b) ==
    LET e == Min2(a.e, b.e) IN MantissaAt(a, e) = MantissaAt(b, e)

DecLeq(a, b) ==
    LET e == Min2(a.e, b.e) IN MantissaAt(a, e) <= MantissaAt(b, e)

\* int(s) of a string of digits
RECURSIVE IntOf(_)
IntOf(s) ==
    IF s = <<>> THEN 0
    ELSE 10 * IntOf(SubSeq(s, 1, Len(s) - 1)) + DigitValue(s[Len(s)])

\* float(s): digits with at most one point inside; anything else (a space
\* between digit groups, for one) is a ValueError
FloatRaises(s) ==
    \/ s = <<>>
    \/ \E i \in DOMAIN s : ~IsDigit(s[i]) /\ s[i] # "."
    \/ Cardinality({i \in DOMAIN s : s[i] = "."}) > 1
    \/ ~IsDigit(s[1])
    \/ ~IsDigit(s[Len(s)])

Float(s) ==
    LET dots == {i \in DOMAIN s : s[i] = "."}
    IN  IF dots = {} THEN Dec(IntOf(s), 0)
        ELSE LET d == CHOOSE i \in dots : TRUE
             IN  Dec(IntOf(Replace(s, ".", <<>>)), 0 - (Len(s) - d))

\* UnitConverter.production_units, in insertion order (unit, factor to t/Jahr)
ProductionUnits ==
    <<<<<<"t", "/", "j">>, Dec(1, 0)>>,
      <<<<"t", "/", "j", "a", "h", "r">>, Dec(1, 0)>>,
      <<<<"t", "/", "a">>, Dec(1, 0)>>,
      <<<<"t", "/", "y", "e", "a", "r">>, Dec(1, 0)>>,
      <<<<"t", "o", "n", "n", "e", "s", "/", "j">>, Dec(1, 0)>>,
      <<<<"t", "o", "n", "n", "e", "s", "/", "j", "a", "h", "r">>, Dec(1, 0)>>,
      <<<<"t", "o", "n", "n", "e", "s", "/", "a">>, Dec(1, 0)>>,
      <<<<"t", "o", "n", "n", "e", "s", "/", "y", "e", "a", "r">>, Dec(1, 0)>>,
      <<<<"m", "t", "/", "j">>, Dec(1, 6)>>,
      <<<<"m", "t", "/", "j", "a", "h", "r">>, Dec(1, 6)>>,
      <<<<"m", "t", "/", "a">>, Dec(1, 6)>>,
      <<<<"m", "t", "/", "y", "e", "a", "r">>, Dec(1, 6)>>,
      <<<<"m", "i", "l", "l", "i", "o", "n", " ", "t", "o", "n", "n", "e", "s", "/", "j">>, Dec(1, 6)>>,
      <<<<"m", "i", "l", "l", "i", "o", "n", " ", "t", "o", "n", "n", "e", "s", "/", "j", "a", "h", "r">>, Dec(1, 6)>>,
      <<<<"m", "i", "l", "l", "i", "o", "n", " ", "t", "o", "n", "n", "e", "s", "/", "a">>, Dec(1, 6)>>,
      <<<<"m", "i", "l", "l", "i", "o", "n", " ", "t", "o", "n", "n", "e", "s", "/", "y", "e", "a", "r">>, Dec(1, 6)>>,
      <<<<"o", "z", "/", "j">>, Dec(311035, -4)>>,
      <<<<"o", "z", "/", "j", "a", "h", "r">>, Dec(311035, -4)>>,
      <<<<"o", "z", "/", "a">>, Dec(311035, -4)>>,
      <<<<"o", "z", "/", "y", "e", "a", "r">>, Dec(311035, -4)>>,
      <<<<"o", "u", "n", "c", "e", "s", "/", "j">>, Dec(311035, -4)>>,
      <<<<"o", "u", "n", "c", "e", "s", "/", "j", "a", "h", "r">>, Dec(311035, -4)>>,
      <<<<"o", "u", "n", "c", "e", "s", "/", "a">>, Dec(311035, -4)>>,
      <<<<"o", "u", "n", "c", "e", "s", "/", "y", "e", "a", "r">>, Dec(311035, -4)>>,
      <<<<"k", "g", "/", "j">>, Dec(1, -3)>>,
      <<<<"k", "g", "/", "j", "a", "h", "r">>, Dec(1, -3)>>,
      <<<<"k", "g", "/", "a">>, Dec(1, -3)>>,
      <<<<"k", "g", "/", "y", "e", "a", "r">>, Dec(1, -3)>>,
      <<<<"g", "/", "j">>, Dec(1, -6)>>,
      <<<<"g", "/", "j", "a", "h", "r">>, Dec(1, -6)>>,
      <<<<"g", "/", "a">>, Dec(1, -6)>>,
      <<<<"g", "/", "y", "e", "a", "r">>, Dec(1, -6)>>>>

\* UnitConverter.area_units, in insertion order (unit, factor to km²)
AreaUnits ==
    <<<<<<"k", "m", "²">>, Dec(1, 0)>>,
      <<<<"k", "m", "2">>, Dec(1, 0)>>,
      <<<<"q", "k", "m">>, Dec(1, 0)>>,
      <<<<"s", "q", " ", "k", "m">>, Dec(1, 0)>>,
      <<<<"s", "q", "u", "a", "r", "e", " ", "k", "m">>, Dec(1, 0)>>,
      <<<<"h", "a">>, Dec(1, -2)>>,
      <<<<"h", "e", "c", "t", "a", "r", "e", "s">>, Dec(1, -2)>>,
      <<<<"h", "e", "c", "t", "a", "r", "e">>, Dec(1, -2)>>,
      <<<<"m", "²">>, Dec(1, -6)>>,
      <<<<"m", "2">>, Dec(1, -6)>>,
      <<<<"s", "q", " ", "m">>, Dec(1, -6)>>,
      <<<<"s", "q", "u", "a", "r", "e", " ", "m">>, Dec(1, -6)>>,
      <<<<"f", "t", "²">>, Dec(92903, -12)>>,
      <<<<"f", "t", "2">>, Dec(92903, -12)>>,
      <<<<"s", "q", " ", "f", "t">>, Dec(92903, -12)>>,
      <<<<"s", "q", "u", "a", "r", "e", " ", "f", "t">>, Dec(92903, -12)>>>>

\* UnitConverter.unit_conversion_factors (target unit, factor from km²)
UnitConversionFactors ==
    <<<<<<"k", "m", "²">>, Dec(1, 0)>>,
      <<<<"h", "a">>, Dec(1, 2)>>>>

\* ConversionResult, and ConversionResult.is_valid
ConversionResult(value, unit, original_text, confidence, error_message) ==
    [value |-> value, unit |-> unit, original_text |-> original_text,
     confidence |-> confidence, error_message |-> error_message]

IsValid(r) == r.value # NoneValue /\ r.unit # <<>> /\ r.error_message = ""

\* `not text or not text.strip()`
IsEmptyText(s) == \A i \in DOMAIN s : IsSpace(s[i])

\* what re finds at one position: the position after the match (0: no match
\* here) and the groups
Match(end, prefix, value, unit) ==
    [end |-> end, prefix |-> prefix, value |-> value, unit |-> unit]

NoMatch == Match(0, <<>>, <<>>, <<>>)

\* (?:[.,]\d+)? at position j, the marks being [.,] or \.
FractionEnd(s, j, marks) ==
    IF j + 1 <= Len(s) /\ s[j] \in marks /\ IsDigit(s[j + 1])
    THEN RunEnd(s, j + 1, IsDigit)
    ELSE j

\* \d+(?:[.,]\d+)? at position i: the position after it, or 0
NumberEnd(s, i) ==
    IF i > Len(s) \/ ~IsDigit(s[i]) THEN 0
    ELSE FractionEnd(s, RunEnd(s, i, IsDigit), {".", ","})

\* (?:\s\d{3})* at position j
RECURSIVE GroupsEnd(_, _)
GroupsEnd(s, j) ==
    IF /\ j + 3 <= Len(s)
       /\ IsSpace(s[j])
       /\ \A k \in j + 1 .. j + 3 : IsDigit(s[k])
    THEN GroupsEnd(s, j + 4)
    ELSE j

\* \d+(?:\s\d{3})*(?:[.,]\d+)? at position i: the position after it, or 0
GroupedNumberEnd(s, i) ==
    IF i > Len(s) \/ ~IsDigit(s[i]) THEN 0
    ELSE FractionEnd(s, GroupsEnd(s, RunEnd(s, i, IsDigit)), {".", ","})

\* /[a-zA-Z]+ at position j: the position after it, or 0
PerUnitEnd(s, j) ==
    IF j + 1 <= Len(s) /\ s[j] = "/" /\ IsLetter(s[j + 1])
    THEN RunEnd(s, j + 1, IsLetter)
    ELSE 0

\* [a-zA-Z²]+/[a-zA-Z]+ at position i: the position after it, or 0
RateUnitEnd(s, i) ==
    IF i > Len(s) \/ ~IsUnitChar(s[i]) THEN 0
    ELSE PerUnitEnd(s, RunEnd(s, i, IsUnitChar))

\* [a-zA-Z²]+ at position i: the position after it, or 0
AreaUnitEnd(s, i) ==
    IF i > Len(s) \/ ~IsUnitChar(s[i]) THEN 0
    ELSE RunEnd(s, i, IsUnitChar)

\* [><~\u2248]; the one character U+2248 (almost equal to) is written "~="
PrefixChars == {">", "<", "~", "~="}

\* the match of a number from i to number_end and a unit from k to u
MatchUpTo(s, i, prefix, number_end, k, u) ==
    IF u = 0 THEN NoMatch
    ELSE Match(u, prefix, Sub(s, i, number_end), Sub(s, k, u))

\* a unit pattern at position k, after the number and \s*
UnitAfter(s, i, prefix, number_end, k, rate_unit) ==
    MatchUpTo(s, i, prefix, number_end, k,
              IF rate_unit THEN RateUnitEnd(s, k) ELSE AreaUnitEnd(s, k))

\* a number pattern followed by \s* and a unit pattern, at position i
NumberThenUnit(s, i, prefix, number_end, rate_unit) ==
    IF number_end = 0 THEN NoMatch
    ELSE UnitAfter(s, i, prefix, number_end, RunEnd(s, number_end, IsSpace),
                   rate_unit)

\* the patterns of normalize_production_rate ("rate1", "rate2", "rate3") and
\* of normalize_area ("area1", "area2", "area3") tried at position i; the
\* second pattern of normalize_production_rate starts with a prefix and \s*
MatchAt(pattern, s, i) ==
    IF pattern = "rate2" /\ s[i] \notin PrefixChars THEN NoMatch
    ELSE NumberThenUnit(s,
             IF pattern = "rate2" THEN RunEnd(s, i + 1, IsSpace) ELSE i,
             IF pattern = "rate2" THEN <<s[i]>> ELSE <<>>,
             IF pattern = "rate2" THEN NumberEnd(s, RunEnd(s, i + 1, IsSpace))
             ELSE IF pattern \in {"rate1", "area1"} THEN NumberEnd(s, i)
             ELSE GroupedNumberEnd(s, i),
             pattern \in {"rate1", "rate2", "rate3"})

\* re.finditer(pattern, text): the matches from position pos on, left to
\* right, each search starting where the match before ended
RECURSIVE FindIter(_, _, _)
RECURSIVE FindIterFrom(_, _, _)
RECURSIVE FindIterAfter(_, _, _)

\* the match m and those after it
FindIterAfter(pattern, s, m) == <<m>> \o FindIter(pattern, s, m.end)

\* the matches, given the positions where there is one
FindIterFrom(pattern, s, starts) ==
    IF starts = {} THEN <<>>
    ELSE FindIterAfter(pattern, s, MatchAt(pattern, s, MinOf(starts)))

FindIter(pattern, s, pos) ==
    FindIterFrom(pattern, s,
                 {i \in pos .. Len(s) : MatchAt(pattern, s, i) # NoMatch})

\* the factor of the first unit of the table that occurs in the unit found
\* (`if unit_pattern.lower() in unit`), or None
FirstFactor(units, unit) ==
    LET hits == {k \in DOMAIN units : Contains(unit, Lower(units[k][1]))}
    IN  IF hits = {} THEN NoneValue
        ELSE units[CHOOSE k \in hits : \A l \in hits : k <= l][2]

\* the confidence of a production match: 0.8, times 0.9 with a prefix
RateConfidence(prefix) ==
    IF prefix # <<>> /\ prefix[1] \in PrefixChars THEN 72 ELSE 80

NoCandidate == [found |-> FALSE]

\* the candidate of a production match, given its number, unit and factor:
\* none when float raises ValueError or the table has no factor
RateCandidateOf(value_str, unit, factor, prefix) ==
    IF FloatRaises(value_str) \/ factor = NoneValue THEN NoCandidate
    ELSE [found |-> TRUE,
          value |-> DecMul(Float(value_str), factor),
          unit |-> <<"t", "/", "J", "a", "h", "r">>,
          prefix |-> prefix,
          original_value |-> Float(value_str),
          original_unit |-> unit,
          confidence |-> RateConfidence(prefix)]

\* the body of the loop of normalize_production_rate for one match
RateCandidate(m) ==
    RateCandidateOf(Replace(m.value, ",", <<".">>), Lower(m.unit),
                    FirstFactor(ProductionUnits, Lower(m.unit)), m.prefix)

\* `if confidence > best_confidence`
Better(c, best) ==
    c.found /\ (~best.found \/ c.confidence > best.confidence)

\* the best candidate, the candidates taken in the order the loops meet them
RECURSIVE BestOf(_, _)
BestOf(candidates, best) ==
    IF candidates = <<>> THEN best
    ELSE BestOf(Tail(candidates),
                IF Better(Head(candidates), best) THEN Head(candidates)
                ELSE best)

RECURSIVE RateCandidates(_)
RateCandidates(matches) ==
    IF matches = <<>> THEN <<>>
    ELSE <<RateCandidate(Head(matches))>> \o RateCandidates(Tail(matches))

\* the result of normalize_production_rate, given the best candidate
RateResult(s, best) ==
    IF best.found
    THEN ConversionResult(best.value, best.unit,
             [prefix |-> best.prefix,
              original_value |-> best.original_value,
              original_unit |-> best.original_unit,
              value |-> best.value],
             best.confidence, "")
    ELSE ConversionResult(NoneValue, <<>>, s, 0,
                          "Keine gueltige Foerdermenge gefunden")

NormalizeProductionRate(s) ==
    IF IsEmptyText(s)
    THEN ConversionResult(NoneValue, <<>>, <<>>, 0, "Leerer Text")
    ELSE RateResult(s, BestOf(RateCandidates(FindIter("rate1", s, 1)
                                             \o FindIter("rate2", s, 1)
                                             \o FindIter("rate3", s, 1)),
                              NoCandidate))

\* unit_conversion_factors.get(target_unit, 1.0)
TargetFactor(target) ==
    IF \E k \in DOMAIN UnitConversionFactors :
           UnitConversionFactors[k][1] = target
    THEN UnitConversionFactors[
             CHOOSE k \in DOMAIN UnitConversionFactors :
                 UnitConversionFactors[k][1] = target][2]
    ELSE Dec(1, 0)

\* the candidate of an area match, given its number, unit and factors
AreaCandidateOf(value_str, unit, factor, target_factor, target) ==
    IF FloatRaises(value_str) \/ factor = NoneValue THEN NoCandidate
    ELSE [found |-> TRUE,
          value |-> DecMul(DecMul(Float(value_str), factor), target_factor),
          unit |-> target,
          original_value |-> Float(value_str),
          original_unit |-> unit,
          confidence |-> 90]

\* the body of the loop of normalize_area for one match
AreaCandidateMutCommaKept(m, target) ==
    AreaCandidateOf(Replace(m.value, " ", <<>>), Lower(m.unit),
                    FirstFactor(AreaUnits, Lower(m.unit)),
                    TargetFactor(target), target)

AreaCandidate(m, target) ==
    AreaCandidateOf(Replace(Replace(m.value, ",", <<".">>), " ", <<>>),
                    Lower(m.unit), FirstFactor(AreaUnits, Lower(m.unit)),
                    TargetFactor(target), target)

RECURSIVE AreaCandidates(_, _)
AreaCandidates(matches, target) ==
    IF matches = <<>> THEN <<>>
    ELSE <<AreaCandidate(Head(matches), target)>>
         \o AreaCandidates(Tail(matches), target)

\* the result of normalize_area, given the best candidate
AreaResult(s, best) ==
    IF best.found
    THEN ConversionResult(best.value, best.unit,
             [original_value |-> best.original_value,
              original_unit |-> best.original_unit,
              value |-> best.value],
             best.confidence, "")
    ELSE ConversionResult(NoneValue, <<>>, s, 0,
                          "Keine gueltige Flaechenangabe gefunden")

NormalizeArea(s, target) ==
    IF IsEmptyText(s)
    THEN ConversionResult(NoneValue, <<>>, <<>>, 0, "Leerer Text")
    ELSE AreaResult(s, BestOf(AreaCandidates(FindIter("area1", s, 1)
                                             \o FindIter("area2", s, 1)
                                             \o FindIter("area3", s, 1),
                                             target),
                              NoCandidate))

(***************************************************************************)
(* normalize_coordinates.  Its patterns are written as sequences of         *)
(* elements: one character out of a set, \s*, or a capturing group.         *)
(***************************************************************************)
Lit(set) == [kind |-> "lit", chars |-> set]
Spaces == [kind |-> "spaces", chars |-> {}]
Group(what) == [kind |-> what, chars |-> {}]
GroupOf(set) == [kind |-> "one of", chars |-> set]

\* \d+(?:\.\d+)? at position d: the position after it, or 0
UnsignedDecimalEnd(s, d) ==
    IF d > Len(s) \/ ~IsDigit(s[d]) THEN 0
    ELSE FractionEnd(s, RunEnd(s, d, IsDigit), {"."})

\* [+-]?\d+(?:\.\d+)? at position i: the position after it, or 0
SignedDecimalEnd(s, i) ==
    UnsignedDecimalEnd(s, IF i <= Len(s) /\ s[i] \in {"+", "-"} THEN i + 1
                          ELSE i)

\* \d{n} at position i: the position after it, or 0
DigitsExactlyEnd(s, i, n) ==
    IF i + n - 1 <= Len(s) /\ \A k \in i .. i + n - 1 : IsDigit(s[k])
    THEN i + n ELSE 0

\* the position after one element of a pattern matched at position i, or 0
ElementEnd(el, s, i) ==
    CASE el.kind = "spaces" -> RunEnd(s, i, IsSpace)
      [] el.kind \in {"lit", "one of"} ->
            IF i <= Len(s) /\ s[i] \in el.chars THEN i + 1 ELSE 0
      [] el.kind = "digits" ->
            IF i <= Len(s) /\ IsDigit(s[i]) THEN RunEnd(s, i, IsDigit) ELSE 0
      [] el.kind = "digits6" -> DigitsExactlyEnd(s, i, 6)
      [] el.kind = "digits7" -> DigitsExactlyEnd(s, i, 7)
      [] el.kind = "grouped" ->
            IF i <= Len(s) /\ IsDigit(s[i])
            THEN GroupsEnd(s, RunEnd(s, i, IsDigit)) ELSE 0
      [] el.kind = "decimal" ->
            IF i <= Len(s) /\ IsDigit(s[i]) THEN SignedDecimalEnd(s, i) ELSE 0
      [] OTHER -> SignedDecimalEnd(s, i)

\* no match: every pattern has a group, a match has groups
NoGroups == <<>>

\* the groups of a pattern matched at position i, or NoGroups
RECURSIVE MatchElements(_, _, _, _)
RECURSIVE MatchRest(_, _, _, _, _)

\* the first element of the pattern ends at j (0: it does not match)
MatchRest(pat, s, i, j, groups) ==
    IF j = 0 THEN NoGroups
    ELSE MatchElements(Tail(pat), s, j,
             IF Head(pat).kind \in {"lit", "spaces"} THEN groups
             ELSE Append(groups, Sub(s, i, j)))

MatchElements(pat, s, i, groups) ==
    IF pat = <<>> THEN groups
    ELSE MatchRest(pat, s, i, ElementEnd(Head(pat), s, i), groups)

\* the groups of the leftmost match, given the positions where there is one
SearchFrom(pat, s, starts) ==
    IF starts = {} THEN NoGroups
    ELSE MatchElements(pat, s, MinOf(starts), <<>>)

\* re.search(pattern, text): the groups of the leftmost match, or NoGroups
Search(pat, s) ==
    SearchFrom(pat, s, {i \in 1 .. Len(s) :
                           MatchElements(pat, s, i, <<>>) # NoGroups})

Either(c) == {c, LowerChar(c)}

\* (\d{6})\s*;\s*([+-]?\d+(?:\.\d+)?)
MixedPattern ==
    <<Group("digits6"), Spaces, Lit({";"}), Spaces, Group("signed")>>

\* utm_patterns, searched with re.IGNORECASE
UtmPatterns ==
    << <<Lit(Either("U")), Lit(Either("T")), Lit(Either("M")), Spaces,
         Lit(Either("E")), Spaces, Lit({"="}), Spaces, Group("grouped"),
         Spaces, Lit({"/"}), Spaces, Lit(Either("N")), Spaces, Lit({"="}),
         Spaces, Group("grouped")>>,
       <<Group("digits6"), Spaces, Lit({";"}), Spaces, Group("digits7")>>,
       <<Lit(Either("E")), Spaces, Group("grouped"), Spaces,
         Lit(Either("N")), Spaces, Group("grouped")>> >>

\* [EW] of the degrees-minutes-seconds pattern, with re.IGNORECASE
LongitudeLetters == {"E", "W", "e", "w"}

\* lat_long_patterns, searched with re.IGNORECASE
DmsPattern ==
    <<Group("digits"), Lit({"°"}), Group("digits"), Lit({"'"}),
      Group("decimal"), Lit({"\""}), Spaces, GroupOf({"N", "S", "n", "s"}),
      Spaces, Lit({"/"}), Spaces,
      Group("digits"), Lit({"°"}), Group("digits"), Lit({"'"}),
      Group("decimal"), Lit({"\""}), Spaces, GroupOf(LongitudeLetters)>>

DecimalPairPattern ==
    <<Group("signed"), Spaces, Lit({","}), Spaces, Group("signed")>>

\* float(s) of a number that may carry a sign
SignedFloat(s) ==
    IF s[1] = "-" THEN LET f == Float(Tail(s)) IN Dec(0 - f.m, f.e)
    ELSE IF s[1] = "+" THEN Float(Tail(s))
    ELSE Float(s)

\* integer division, rounded to the nearest (n >= 0, d > 0)
DivRound(n, d) == (2 * n + d) \div (2 * d)

RECURSIVE Gcd(_, _)
Gcd(a, b) == IF b = 0 THEN a ELSE Gcd(b, a % b)

\* f"{x:.6f}" as the text shows it: sign, whole part, millionths
Fixed6(neg, whole, frac) == [neg |-> neg, whole |-> whole, frac |-> frac]

\* f"{x:.6f}" of a number of millionths
FromMicro(neg, n) == Fixed6(neg, n \div Pow10(6), n % Pow10(6))

\* f"{x:.6f}" of a decimal
Micro(x) ==
    LET abs == IF x.m < 0 THEN 0 - x.m ELSE x.m
    IN  IF x.e >= 0 THEN Fixed6(x.m < 0, abs * Pow10(x.e), 0)
        ELSE IF x.e >= -6
        THEN Fixed6(x.m < 0, abs \div Pow10(0 - x.e),
                    (abs % Pow10(0 - x.e)) * Pow10(6 + x.e))
        ELSE FromMicro(x.m < 0, DivRound(abs, Pow10(0 - 6 - x.e)))

\* f"{deg + min/60 + sec/3600:.6f}" in millionths, sec being a float with at
\* most six decimals
DmsMicro(deg, min, sec) ==
    LET scale == Pow10(0 - sec.e)
        seconds == (deg * 3600 + min * 60) * scale + sec.m
        g == Gcd(Pow10(6), 3600 * scale)
    IN  DivRound(seconds * (Pow10(6) \div g), (3600 * scale) \div g)

\* f"{0.0:.6f}"
Zero6 == Fixed6(FALSE, 0, 0)

\* the value f"{lat:.6f}, {lon:.6f}"
LatLong(lat, lon) == [lat |-> lat, lon |-> lon]

UnitLatLong == <<"L", "a", "t", "/", "L", "o", "n", "g">>

\* the part of normalize_coordinates for "426542; -77.42"
MixedResult(s, g) ==
    IF Len(Replace(Replace(g[2], ".", <<>>), "-", <<>>)) >= 6
    THEN ConversionResult(LatLong(Zero6, Zero6), UnitLatLong,
             [utm |-> g, converted |-> FALSE], 30, "")
    ELSE ConversionResult(LatLong(Zero6, Micro(SignedFloat(g[2]))),
             UnitLatLong, [utm_easting |-> g[1], longitude |-> g[2]], 70, "")

\* the loop over utm_patterns from pattern k on: the result of the first
\* pattern that matches with two numbers of six digits or more, or None
RECURSIVE UtmResult(_, _)
RECURSIVE UtmFound(_, _, _)

\* the body of the loop for pattern k, g being what re.search gave
UtmFound(s, k, g) ==
    IF /\ g # NoGroups
       /\ Len(Replace(g[1], " ", <<>>)) >= 6
       /\ Len(Replace(g[2], " ", <<>>)) >= 6
    THEN ConversionResult(LatLong(Zero6, Zero6), UnitLatLong,
             [utm |-> g, converted |-> FALSE], 30, "")
    ELSE UtmResult(s, k + 1)

UtmResult(s, k) ==
    IF k > Len(UtmPatterns) THEN NoneValue
    ELSE UtmFound(s, k, Search(UtmPatterns[k], s))

\* the result of a lat/long pattern that matched
LatLongFound(lat, lon) ==
    ConversionResult(LatLong(lat, lon), UnitLatLong, LatLong(lat, lon), 90,
                     "")

\* the loop over lat_long_patterns, dms and pair being what re.search gave
\* for the two patterns
LatLongOf(dms, pair) ==
    IF dms # NoGroups
    THEN LatLongFound(
             FromMicro(dms[4][1] \in {"S", "s"},
                       DmsMicro(IntOf(dms[1]), IntOf(dms[2]), Float(dms[3]))),
             FromMicro(dms[8][1] \in {"W", "w"},
                       DmsMicro(IntOf(dms[5]), IntOf(dms[6]), Float(dms[7]))))
    ELSE IF pair # NoGroups
    THEN LatLongFound(Micro(SignedFloat(pair[1])),
                      Micro(SignedFloat(pair[2])))
    ELSE NoneValue

LatLongResult(s) ==
    LatLongOf(Search(DmsPattern, s), Search(DecimalPairPattern, s))

\* the result when no pattern gave coordinates
CoordinatesNotFoundMutKeepsValue(s) ==
    ConversionResult(LatLong(Zero6, Zero6), <<>>, s, 0,
                     "Keine gueltigen Koordinaten gefunden")

CoordinatesNotFound(s) ==
    ConversionResult(NoneValue, <<>>, s, 0,
                     "Keine gueltigen Koordinaten gefunden")

\* the first result of the three parts of normalize_coordinates
FirstResult(s, mixed, utm, lat_long) ==
    IF mixed # NoGroups THEN MixedResult(s, mixed)
    ELSE IF utm # NoneValue THEN utm
    ELSE IF lat_long # NoneValue THEN lat_long
    ELSE CoordinatesNotFound(s)

NormalizeCoordinates(s) ==
    IF IsEmptyText(s)
    THEN ConversionResult(NoneValue, <<>>, s, 0, "Leerer Text")
    ELSE FirstResult(s, Search(MixedPattern, s), UtmResult(s, 1),
                     LatLongResult(s))

(***************************************************************************)
(* JSONUtils.extract_json_from_text and json.loads.  In a response the      *)
(* code-block fence (three backticks) is one element of the sequence.       *)
(***************************************************************************)
FENCE == "fence"

\* str.strip()
StripText(s) ==
    LET keep == {i \in DOMAIN s : ~IsSpace(s[i])}
    IN  IF keep = {} THEN <<>>
        ELSE Sub(s, CHOOSE i \in keep : \A k \in keep : i <= k,
                 (CHOOSE i \in keep : \A k \in keep : i >= k) + 1)

\* str.find(c) and str.rfind(c) as 1-based positions, 0 when c is absent
Find(s, c) ==
    LET at == {i \in DOMAIN s : s[i] = c}
    IN  IF at = {} THEN 0 ELSE CHOOSE i \in at : \A k \in at : i <= k

RFind(s, c) ==
    LET at == {i \in DOMAIN s : s[i] = c}
    IN  IF at = {} THEN 0 ELSE CHOOSE i \in at : \A k \in at : i >= k

\* the fenced-block patterns: a fence followed by "json", or a bare fence,
\* then the text up to the next fence; group(1).strip() of the leftmost
\* match of the first pattern that matches, or None
FencedBlock(s) ==
    LET closes(i) == {k \in i + 1 .. Len(s) : s[k] = FENCE}
        tagged == {i \in DOMAIN s :
                      /\ s[i] = FENCE
                      /\ i + 4 <= Len(s)
                      /\ Lower(Sub(s, i + 1, i + 5)) = <<"j", "s", "o", "n">>
                      /\ closes(i + 4) # {}}
        bare == {i \in DOMAIN s : s[i] = FENCE /\ closes(i) # {}}
        first(set) == CHOOSE i \in set : \A k \in set : i <= k
    IN  IF tagged # {}
        THEN StripText(Sub(s, first(tagged) + 5, first(closes(first(tagged) + 4))))
        ELSE IF bare # {}
        THEN StripText(Sub(s, first(bare) + 1, first(closes(first(bare)))))
        ELSE NoneValue

\* the test that lets the span from the first "{" to the last "}" through
BraceSpanAcceptedMutNever(json_text) == FALSE

BraceSpanAccepted(json_text) ==
    /\ json_text # <<>>
    /\ json_text[1] = "{"
    /\ json_text[Len(json_text)] = "}"

\* json_str, when it passes the test, or None
AcceptedSpan(json_text) ==
    IF BraceSpanAccepted(json_text) THEN json_text ELSE NoneValue

\* text[start_idx:end_idx + 1].strip() when the text has a "{" before its
\* last "}" and that span passes the test; else None
BraceSpan(s) ==
    IF Find(s, "{") # 0 /\ RFind(s, "}") > Find(s, "{")
    THEN AcceptedSpan(StripText(Sub(s, Find(s, "{"), RFind(s, "}") + 1)))
    ELSE NoneValue

IsNoBrace(c) == c \notin {"{", "}"}

\* (?:\{[^{}]*\}[^{}]*)* at position j
RECURSIVE InnerGroupsEnd(_, _)
RECURSIVE InnerGroupEnd(_, _, _)

\* one \{[^{}]*\}[^{}]* at position j, its [^{}]* ending at k, and the
\* groups after it
InnerGroupEnd(s, j, k) ==
    IF k <= Len(s) /\ s[k] = "}"
    THEN InnerGroupsEnd(s, RunEnd(s, k + 1, IsNoBrace))
    ELSE j

InnerGroupsEnd(s, j) ==
    IF j <= Len(s) /\ s[j] = "{"
    THEN InnerGroupEnd(s, j, RunEnd(s, j + 1, IsNoBrace))
    ELSE j

\* the closing \} at position j: the position after it, or 0
ClosingBraceEnd(s, j) ==
    IF j <= Len(s) /\ s[j] = "}" THEN j + 1 ELSE 0

\* \{[^{}]*(?:\{[^{}]*\}[^{}]*)*\} at position i: the position after it, or 0
NestedBraceEnd(s, i) ==
    IF s[i] # "{" THEN 0
    ELSE ClosingBraceEnd(s, InnerGroupsEnd(s, RunEnd(s, i + 1, IsNoBrace)))

\* re.findall of that pattern: the first object longer than 10, or None
RECURSIVE FirstNestedObject(_, _)
RECURSIVE FirstLongObject(_, _, _)
RECURSIVE FirstObjectFrom(_, _)

\* the object from i to j, when it is longer than 10, or the next one
FirstLongObject(s, i, j) ==
    IF j - i > 10 THEN Sub(s, i, j) ELSE FirstNestedObject(s, j)

\* the objects, given the positions where one starts
FirstObjectFrom(s, starts) ==
    IF starts = {} THEN NoneValue
    ELSE FirstLongObject(s, MinOf(starts), NestedBraceEnd(s, MinOf(starts)))

FirstNestedObject(s, pos) ==
    FirstObjectFrom(s, {i \in pos .. Len(s) : NestedBraceEnd(s, i) # 0})

\* re.search(r'(\{.*\})', text, re.DOTALL): group(1), or None
BracketsMatch(s) ==
    IF Find(s, "{") # 0 /\ RFind(s, "}") > Find(s, "{")
    THEN Sub(s, Find(s, "{"), RFind(s, "}") + 1)
    ELSE NoneValue

\* what extract_json_from_text returns, and the strategy that gave it.  The
\* keyword searches of the last strategy are not computed: `synthesized`
\* tells whether one of them found something.
Extracted(strategy, json_text) == [strategy |-> strategy, text |-> json_text]

\* the result of the first strategy that gave one
FirstStrategy(fenced, brace_span, nested, brackets, synthesized) ==
    IF fenced # NoneValue THEN Extracted("fenced", fenced)
    ELSE IF brace_span # NoneValue THEN Extracted("brace span", brace_span)
    ELSE IF nested # NoneValue THEN Extracted("nested", nested)
    ELSE IF brackets # NoneValue THEN Extracted("brackets", brackets)
    ELSE IF synthesized THEN Extracted("prose", <<"{", "}">>)
    ELSE Extracted("none", NoneValue)

ExtractJsonFromText(s, synthesized) ==
    IF s = <<>> THEN Extracted("none", NoneValue)
    ELSE FirstStrategy(FencedBlock(s), BraceSpan(s), FirstNestedObject(s, 1),
                       BracketsMatch(s), synthesized)

\* json.loads for objects whose names and values are strings without
\* escapes or objects: the object as a sequence of (name, value) pairs, or
\* JSONDecodeError
SkipSpaces(s, i) == RunEnd(s, i, IsSpace)

IsNoQuote(c) == c # "\""

Parsed(end, value) == [ok |-> TRUE, end |-> end, value |-> value]

ParseError == [ok |-> FALSE, end |-> 0, value |-> <<>>]

\* a string that starts at position i and ends at the quote at j
QuotedString(s, i, j) ==
    IF j <= Len(s) THEN Parsed(j + 1, [str |-> Sub(s, i + 1, j)])
    ELSE ParseError

\* a string at position i
ParseString(s, i) ==
    IF i <= Len(s) /\ s[i] = "\""
    THEN QuotedString(s, i, RunEnd(s, i + 1, IsNoQuote))
    ELSE ParseError

RECURSIVE ParseValue(_, _)
RECURSIVE ParseMembers(_, _, _)
RECURSIVE ParseMemberValue(_, _, _, _)
RECURSIVE ParseMembersAfter(_, _, _)
RECURSIVE ParseObject(_, _)

\* the rest of an object after a member: "}" or "," at position after
ParseMembersAfter(s, after, all) ==
    IF after > Len(s) THEN ParseError
    ELSE IF s[after] = "}" THEN Parsed(after + 1, [obj |-> all])
    ELSE IF s[after] = ","
    THEN ParseMembers(s, SkipSpaces(s, after + 1), all)
    ELSE ParseError

\* a member whose name was parsed and whose value is what ParseValue gave
ParseMemberValue(s, name, value, members) ==
    IF ~value.ok THEN ParseError
    ELSE ParseMembersAfter(s, SkipSpaces(s, value.end),
                           Append(members, <<name.value, value.value>>))

\* a member whose name is what ParseString gave, from the colon on
ParseMemberName(s, name, members) ==
    IF name.ok /\ SkipSpaces(s, name.end) <= Len(s)
       /\ s[SkipSpaces(s, name.end)] = ":"
    THEN ParseMemberValue(s, name,
             ParseValue(s, SkipSpaces(s, SkipSpaces(s, name.end) + 1)),
             members)
    ELSE ParseError

\* the members of an object from position i on, up to its closing brace
ParseMembers(s, i, members) ==
    ParseMemberName(s, ParseString(s, i), members)

\* an object whose first character after "{" and spaces is at j
ParseObject(s, j) ==
    IF j <= Len(s) /\ s[j] = "}" THEN Parsed(j + 1, [obj |-> <<>>])
    ELSE ParseMembers(s, j, <<>>)

ParseValue(s, i) ==
    IF i > Len(s) THEN ParseError
    ELSE IF s[i] = "\"" THEN ParseString(s, i)
    ELSE IF s[i] = "{" THEN ParseObject(s, SkipSpaces(s, i + 1))
    ELSE ParseError

JSONDecodeError == [raised |-> "JSONDecodeError"]

\* the value parsed from the start of the text, when only spaces follow it
WholeText(s, v) ==
    IF v.ok /\ SkipSpaces(s, v.end) = Len(s) + 1 THEN v.value
    ELSE JSONDecodeError

JsonLoads(s) == WholeText(s, ParseValue(s, SkipSpaces(s, 1)))

(***************************************************************************)
(* The texts the functions are given (specification SpecUtils).             *)
(***************************************************************************)
\* production rates: test_production_rate_normalization and variations
RateTexts ==
    {<<"2", ",", "4", " ", "M", "t", "/", "J", "a", "h", "r">>,
     <<"2", ".", "4", " ", "M", "t", "/", "a">>,
     <<"3", " ", "M", "t", "/", "y", "e", "a", "r">>,
     <<"1", ",", "5", " ", "M", "t", "/", "j">>,
     <<"5", " ", "t", "/", "j">>,
     <<"7", " ", "k", "g", "/", "a">>,
     <<"2", " ", "o", "z", "/", "a">>,
     <<"~", "5", "0", "0", " ", "o", "z", "/", "j", "a", "h", "r">>,
     <<">", "3", " ", "t", "/", "a">>,
     <<"6", " ", "6", "0", "0", " ", "t", "/", "j">>,
     <<"1", ".", "5", " ", "m", "i", "l", "l", "i", "o", "n", " ", "t", "o", "n", "n", "e", "s", "/", "y", "e", "a", "r">>,
     <<">", "4", "0", "0", " ", "0", "0", "0", " ", "o", "z", " ", "A", "u">>,
     <<"4", " ", "x", "/", "y">>,
     <<"2", ",", "4", " ", "M", "t", "/", "J", "a", "h", "r", ";", " ", "6", " ", "6", "0", "0", " ", "t", "/", "j">>,
     <<"1", "2", " ", "t", "o", "n", "n", "e", "s", "/", "a">>}

\* the megatonne units of production_units, as a text writes them
MegatonneUnits ==
    {<<"M", "t", "/", "j">>, <<"M", "t", "/", "J", "a", "h", "r">>,
     <<"M", "t", "/", "a">>, <<"M", "t", "/", "y", "e", "a", "r">>}

RateNumbers == {<<"2", ",", "4">>, <<"3">>, <<"0", ".", "5">>}

\* "<number> <unit>"
RateText(number, unit) == number \o <<" ">> \o unit

MegatonneTexts ==
    {RateText(number, unit) : number \in RateNumbers, unit \in MegatonneUnits}

\* areas "<number> <unit>" in hectares and square kilometres
AreaNumbers ==
    {<<"7", "0", ",", "9">>, <<"2", "8", "4", ",", "8">>,
     <<"0", ",", "7", "7", "8">>, <<"5">>, <<"2", ".", "5">>}

Hectare == <<"h", "a">>

SquareKilometre == <<"k", "m", "²">>

AreaSampleTexts ==
    {RateText(number, unit) :
        number \in AreaNumbers, unit \in {Hectare, SquareKilometre}}

\* areas: test_area_normalization, test_csv_field_normalization and variations
AreaTexts ==
    {<<"7", "0", ",", "9", " ", "h", "a">>,
     <<"1", "8", "9", ",", "8", "4", "9", "6", " ", "k", "m", "²">>,
     <<"1", "8", " ", "9", "8", "4", ",", "9", "6", " ", "h", "a">>,
     <<"1", "8", "9", "8", "4", ",", "9", "6", " ", "h", "a">>,
     <<"1", " ", "0", "0", "0", " ", "h", "a">>,
     <<"5", " ", "m", "²">>,
     <<"5", " ", "h", "e", "c", "t", "a", "r", "e", "s">>,
     <<"5", " ", "k", "m", "2">>,
     <<"3", " ", "a", "b", "c">>,
     <<"0", ",", "7", "7", "8", " ", "k", "m", "²">>,
     <<"2", "8", "4", ",", "8", " ", "h", "a">>,
     <<"3", " ", "a", "b", "c", " ", "5", " ", "h", "a">>,
     <<"2", " ", "q", "k", "m">>}

\* coordinates: test_coordinate_normalization and variations
CoordinateTexts ==
    {<<"4", "2", "6", "5", "4", "2", ";", " ", "-", "7", "7", ".", "4", "2">>,
     <<"U", "T", "M", " ", "E", "=", "4", "2", "6", " ", "5", "4", "2", " ", "/", " ", "N", "=", "5", " ", "8", "3", "9", " ", "3", "9", "7">>,
     <<"4", "2", "6", "5", "4", "2", ";", " ", "5", "8", "3", "9", "3", "9", "7">>,
     <<"4", "8", ".", "5", ",", " ", "-", "7", "7", ".", "1">>,
     <<"a", "b", "c">>,
     <<"E", " ", "4", "2", "6", " ", "5", "4", "2", " ", "N", " ", "5", " ", "8", "3", "9", " ", "3", "9", "7">>,
     <<"4", "2", "6", "5", "4", "2", ";", " ", "1", "2">>,
     <<"1", "2", ",", " ", "5">>,
     <<"E", " ", "1", "2", " ", "N", " ", "5">>}

\* empty and blank texts
BlankTexts ==
    {<<>>,
     <<" ">>,
     <<" ", " ">>}

\* one angle in degrees, minutes and seconds, as it is written
Dms(deg, min, sec) == deg \o <<"°">> \o min \o <<"'">> \o sec \o <<"\"">>

\* "<latitude> N / <longitude> O" and its like
DmsPair(lat, lat_dir, lon, lon_dir) ==
    lat \o <<" ", lat_dir, " ", "/", " ">> \o lon \o <<" ", lon_dir>>

\* 52°41'58.37" and 76°05'13.13" of the test, and 12°5'3" and 7°30'0.5",
\* each with deg + min/60 + sec/3600 in millionths of a degree
DmsSamples ==
    {[text |-> Dms(<<"5", "2">>, <<"4", "1">>, <<"5", "8", ".", "3", "7">>),
      micro |-> 52699547],
     [text |-> Dms(<<"7", "6">>, <<"0", "5">>, <<"1", "3", ".", "1", "3">>),
      micro |-> 76086981],
     [text |-> Dms(<<"1", "2">>, <<"5">>, <<"3">>), micro |-> 12084167],
     [text |-> Dms(<<"7">>, <<"3", "0">>, <<"0", ".", "5">>),
      micro |-> 7500139]}

DmsAngles == {sample.text : sample \in DmsSamples}

LatitudeDirections == {"N", "S", "n"}

\* E, W, and O for Ost as the test writes it
LongitudeDirections == {"E", "W", "w", "O"}

DmsTexts ==
    {DmsPair(lat, lat_dir, lon, lon_dir) :
        lat \in DmsAngles, lat_dir \in LatitudeDirections,
        lon \in DmsAngles, lon_dir \in LongitudeDirections}

\* valid JSON objects a model response holds
JsonObjects ==
    {<<"{", "\"", "k", "\"", ":", " ", "\"", "a", "b", "\"", "}">>,
     <<"{", "\"", "k", "\"", ":", "{", "\"", "m", "\"", ":", "\"", "b", "\"", "}", ",", "\"", "n", "\"", ":", "\"", "c", "\"", "}">>,
     <<"{", " ", "\"", "n", "a", "m", "e", "\"", " ", ":", " ", "\"", "X", "\"", " ", "}">>}

\* a response that wraps an object
Wrap(kind, object) ==
    CASE kind = "fenced json" ->
            <<"H", "e", "r", "e", ":", " ">> \o <<FENCE, "j", "s", "o", "n", "\n">>
              \o object \o <<"\n", FENCE>> \o <<" ", "o", "k">>
      [] kind = "fenced" ->
            <<FENCE, "\n">> \o object \o <<"\n", FENCE>>
      [] kind = "bare" -> object
      [] kind = "padded" -> <<" ", "\n">> \o object \o <<"\n">>
      [] kind = "prose" ->
            <<"R", "e", "s", "u", "l", "t", ":", " ">> \o object
              \o <<" ", "D", "o", "n", "e", ".">>
      [] kind = "prose with braces before" ->
            <<"S", "e", "t", " ", "{", "x", "}", ":", " ">> \o object
      [] OTHER ->
            object \o <<" ", "(", "e", "n", "d", " ", "}", ")">>

\* fenced code block, bare braces, noisy prose around the object
WrapKinds ==
    {"fenced json", "fenced", "bare", "padded", "prose",
     "prose with braces before", "prose with brace after"}

\* responses that hold no object, half an object, two objects
OtherResponses ==
    {<<"n", "o", " ", "j", "s", "o", "n", " ", "h", "e", "r", "e">>,
     <<"}", " ", "t", "h", "e", "n", " ", "{">>,
     <<"M", "i", "n", "e", " ", "A", "l", "p", "h", "a">>,
     <<"{", "\"", "k", "\"", ":", " ", "\"", "a", "b", "\"">>,
     <<"{", "\"", "a", "\"", ":", "\"", "b", "\"", "}", " ", "{", "\"", "c", "\"", ":", "\"", "d", "\"", "}">>}

ResponseTexts ==
    {Wrap(kind, object) : kind \in WrapKinds, object \in JsonObjects}
        \cup OtherResponses

UtilTexts ==
    RateTexts \cup MegatonneTexts \cup AreaTexts \cup AreaSampleTexts
        \cup CoordinateTexts
        \cup BlankTexts \cup DmsTexts \cup ResponseTexts

\* target_unit: the two units of the table, and one it does not have
TargetUnits == {SquareKilometre, Hectare, <<"m", "²">>}

UtilFrame ==
    UNCHANGED <<chunkVars, combVars, pipeVars, threadVars, transformVars,
                input_text, target_unit>>

NormalizeProductionRateCall ==
    /\ upc = "call"
    /\ conversion_result' = NormalizeProductionRate(input_text)
    /\ upc' = "normalize_production_rate"
    /\ UNCHANGED json_str
    /\ UtilFrame

NormalizeAreaCall ==
    /\ upc = "call"
    /\ conversion_result' = NormalizeArea(input_text, target_unit)
    /\ upc' = "normalize_area"
    /\ UNCHANGED json_str
    /\ UtilFrame

NormalizeCoordinatesCall ==
    /\ upc = "call"
    /\ conversion_result' = NormalizeCoordinates(input_text)
    /\ upc' = "normalize_coordinates"
    /\ UNCHANGED json_str
    /\ UtilFrame

ExtractJsonFromTextCall ==
    /\ upc = "call"
    /\ \E synthesized \in BOOLEAN :
          json_str' = ExtractJsonFromText(input_text, synthesized)
    /\ upc' = "extract_json_from_text"
    /\ UNCHANGED conversion_result
    /\ UtilFrame

InitUtils ==
    /\ ChunksIdle
    /\ CombineIdle
    /\ PipeIdle
    /\ ThreadsIdle
    /\ TransformIdle
    /\ input_text \in UtilTexts
    /\ target_unit \in TargetUnits
    /\ conversion_result = NoneValue
    /\ json_str = NoneValue
    /\ upc = "call"

NextUtils ==
    \/ NormalizeProductionRateCall
    \/ NormalizeAreaCall
    \/ NormalizeCoordinatesCall
    \/ ExtractJsonFromTextCall

SpecUtils == InitUtils /\ [][NextUtils]_vars

(***************************************************************************)
(* Claims about the unit converter and the JSON recovery.                   *)
(***************************************************************************)
UnitTPerYear == <<"t", "/", "J", "a", "h", "r">>

\* C14: normalize_production_rate multiplies the parsed number by the factor
\* of the unit in the text: a number with a megatonne unit (Mt/j, Mt/Jahr,
\* Mt/a, Mt/year) gives the number times 1,000,000 in t/Jahr with confidence
\* at least 0.8, and "2,4 Mt/Jahr" gives 2,400,000.
C14_MegatonneTimesMillion ==
    upc = "normalize_production_rate" =>
        /\ \A number \in RateNumbers, unit \in MegatonneUnits :
              input_text = RateText(number, unit) =>
                  /\ IsValid(conversion_result)
                  /\ DecEq(conversion_result.value,
                           DecMul(Float(Replace(number, ",", <<".">>)),
                                  Dec(1, 6)))
                  /\ conversion_result.unit = UnitTPerYear
                  /\ conversion_result.confidence >= 80
        /\ input_text = RateText(<<"2", ",", "4">>,
                                 <<"M", "t", "/", "J", "a", "h", "r">>) =>
              DecEq(conversion_result.value, Dec(2400000, 0))

\* C15: normalize_coordinates on a full degrees-minutes-seconds pair, such
\* as 52°41'58.37" N / 76°05'13.13" O, returns a valid result: for each
\* axis deg + min/60 + sec/3600 (negated for S and W), unit "Lat/Long",
\* confidence 0.9.
C15_DmsPairConverted ==
    upc = "normalize_coordinates" =>
        \A lat \in DmsSamples, lon \in DmsSamples,
           lat_dir \in LatitudeDirections, lon_dir \in LongitudeDirections :
            input_text = DmsPair(lat.text, lat_dir, lon.text, lon_dir) =>
                /\ IsValid(conversion_result)
                /\ conversion_result.value =
                       LatLong(FromMicro(lat_dir = "S", lat.micro),
                               FromMicro(lon_dir \in {"W", "w"}, lon.micro))
                /\ conversion_result.unit = UnitLatLong
                /\ conversion_result.confidence = 90

\* C16: normalize_area returns the parsed number times the km² factor of
\* the unit found (ha 0.01, km² 1) times the factor of the requested target
\* unit (km² 1, ha 100), a decimal comma being read as a decimal point;
\* "70,9 ha" with target km² gives 0.709 km² within 0.0001.
C16_AreaTimesFactors ==
    upc = "normalize_area" /\ target_unit \in {SquareKilometre, Hectare} =>
        /\ \A number \in AreaNumbers, unit \in {Hectare, SquareKilometre} :
              input_text = RateText(number, unit) =>
                  /\ IsValid(conversion_result)
                  /\ DecEq(conversion_result.value,
                           DecMul(DecMul(Float(Replace(number, ",", <<".">>)),
                                         IF unit = Hectare THEN Dec(1, -2)
                                         ELSE Dec(1, 0)),
                                  IF target_unit = Hectare THEN Dec(100, 0)
                                  ELSE Dec(1, 0)))
                  /\ conversion_result.unit = target_unit
        /\ (/\ input_text = RateText(<<"7", "0", ",", "9">>, Hectare)
            /\ target_unit = SquareKilometre) =>
              /\ DecLeq(Dec(7089, -4), conversion_result.value)
              /\ DecLeq(conversion_result.value, Dec(7091, -4))

\* "70,9 ha" was normalised to 0.709 km²
C16_Witness ==
    /\ upc = "normalize_area"
    /\ input_text = RateText(<<"7", "0", ",", "9">>, Hectare)
    /\ target_unit = SquareKilometre
    /\ IsValid(conversion_result)
    /\ DecEq(conversion_result.value, Dec(709, -3))
    /\ conversion_result.unit = SquareKilometre

\* an error result: a message, no value, confidence 0
IsError(r) ==
    r.error_message # "" /\ r.value = NoneValue /\ r.confidence = 0

\* C17: for every input text, normalize_production_rate, normalize_area and
\* normalize_coordinates each return a ConversionResult that is either fully
\* valid (value present, unit non-empty, error message empty) or an error
\* (error message non-empty, value absent, confidence 0), never a value
\* together with an error and never neither.
C17_ValidOrError ==
    upc \in {"normalize_production_rate", "normalize_area",
             "normalize_coordinates"} =>
        /\ IsValid(conversion_result) \/ IsError(conversion_result)
        /\ ~(IsValid(conversion_result) /\ IsError(conversion_result))
        /\ conversion_result.value # NoneValue =>
              conversion_result.error_message = ""

\* a text without coordinates gave an error result
C17_Witness ==
    /\ upc = "normalize_coordinates"
    /\ input_text = <<"a", "b", "c">>
    /\ IsError(conversion_result)
    /\ ~IsValid(conversion_result)

\* C18: for every response that wraps one valid JSON object in a fenced
\* code block, in bare braces, or in noisy prose around the object,
\* extract_json_from_text returns a string that parses as JSON to that same
\* object.
C18_RecoveryRoundTrip ==
    upc = "extract_json_from_text" =>
        \A kind \in WrapKinds, object \in JsonObjects :
            input_text = Wrap(kind, object) =>
                /\ json_str.text # NoneValue
                /\ JsonLoads(json_str.text) = JsonLoads(object)

\* C26: for a text whose quantity is preceded by a comparison prefix, such
\* as "~500 oz/jahr", normalize_production_rate returns the confidence 0.72
\* and reports the prefix; for a text without a prefix the confidence of a
\* valid result is 0.8.
C26_PrefixLowersConfidence ==
    (upc = "normalize_production_rate" /\ IsValid(conversion_result)) =>
        IF input_text[1] \in PrefixChars
        THEN /\ conversion_result.confidence = 72
             /\ conversion_result.original_text.prefix = <<input_text[1]>>
        ELSE (\A i \in DOMAIN input_text : input_text[i] \notin PrefixChars)
                 => conversion_result.confidence = 80

\* C27: normalize_area reads a number written with space-separated
\* thousands groups as one number: "18 984,96 ha" with target km² gives
\* 189.8496 km², the value it gives for "18984,96 ha", not the conversion
\* of the last digit group.
C27_ThousandsGroupsOneNumber ==
    (/\ upc = "normalize_area"
     /\ target_unit = SquareKilometre
     /\ input_text = <<"1", "8", " ", "9", "8", "4", ",", "9", "6", " ", "h", "a">>) =>
            /\ IsValid(conversion_result)
            /\ DecEq(conversion_result.value, Dec(1898496, -4))
            /\ DecEq(conversion_result.value,
                     NormalizeArea(<<"1", "8", "9", "8", "4", ",", "9", "6", " ", "h", "a">>,
                                   SquareKilometre).value)

\* the text has a "{" somewhere before a "}"
BraceBeforeBrace(s) == Find(s, "{") # 0 /\ RFind(s, "}") > Find(s, "{")

NameDerMine == <<"N", "a", "m", "e", " ", "d", "e", "r", " ", "M", "i", "n", "e">>
OriginalExtrahierterName == <<"O", "r", "i", "g", "i", "n", "a", "l", "_", "E", "x", "t", "r", "a", "h", "i", "e", "r", "t", "e", "r", "_", "N", "a", "m", "e">>
QuelleNameMatching == <<"Q", "u", "e", "l", "l", "e", "_", "N", "a", "m", "e", "_", "M", "a", "t", "c", "h", "i", "n", "g">>
Dateiname == <<"D", "a", "t", "e", "i", "n", "a", "m", "e">>
Jahr == <<"J", "a", "h", "r">>
Kosten == <<"K", "o", "s", "t", "e", "n">>

\* dict(items): a later item of the same key replaces the earlier one
RECURSIVE DictOf(_)
DictOf(items) ==
    IF items = <<>> THEN EmptyDict
    ELSE DictPut(DictOf(SubSeq(items, 1, Len(items) - 1)),
                 items[Len(items)][1], items[Len(items)][2])

\* d.get(key, default)
DictGet(d, key, default) == IF key \in DOMAIN d THEN d[key] ELSE default

\* MineNameProcessor.find_best_mine_match(name, ...): the best fuzzy match
\* of a name among the known names, or nothing (None, modelled as the empty
\* string: the callers only test the truth value).  What it answers for a
\* name is an input of the model.
FindBestMineMatch(mine_name) == best_matches[mine_name]

\* the result built by the except branch of enhance_mine_data_with_matching
MatchingFailed ==
    TransformationResult(FALSE, NoneValue, "Mine-Matching fehlgeschlagen")

\* the branch `if extracted_mine_name:` after the matcher has answered
MatchExtractedName(enhanced_data, extracted_mine_name, best_match) ==
    IF best_match # <<>> /\ best_match # extracted_mine_name
    THEN TransformationResult(TRUE,
             DictPut(DictPut(enhanced_data, NameDerMine, best_match),
                     OriginalExtrahierterName, extracted_mine_name),
             NoneStr)
    ELSE TransformationResult(TRUE, enhanced_data, NoneStr)

\* the branch `elif file_info.potential_mine_names:`: it is entered only
\* with an empty extracted name, and then the name MineNameProcessor, bound
\* by the import inside the other branch, is a local without a value, so the
\* first use raises and the except branch returns
MatchFilenameCandidates(enhanced_data, potential) == MatchingFailed

EnhanceOf(enhanced_data, extracted_mine_name, potential) ==
    IF extracted_mine_name # <<>>
    THEN MatchExtractedName(enhanced_data, extracted_mine_name,
                            FindBestMineMatch(extracted_mine_name))
    ELSE IF potential # <<>>
    THEN MatchFilenameCandidates(enhanced_data, potential)
    ELSE TransformationResult(TRUE, enhanced_data, NoneStr)

EnhanceCopy(enhanced_data, potential) ==
    EnhanceOf(enhanced_data, DictGet(enhanced_data, NameDerMine, <<>>),
              potential)

EnhanceMineDataWithMatching(items, potential) ==
    EnhanceCopy(DictOf(items), potential)

\* \w of a regular expression
IsWordChar(c) == IsLetter(c) \/ IsDigit(c) \/ c = "_"

\* \b(19|20)\d{2}\b matches at position i
YearAt(s, i) ==
    /\ i + 3 <= Len(s)
    /\ SubSeq(s, i, i + 1) \in {<<"1", "9">>, <<"2", "0">>}
    /\ IsDigit(s[i + 2])
    /\ IsDigit(s[i + 3])
    /\ i = 1 \/ ~IsWordChar(s[i - 1])
    /\ i + 3 = Len(s) \/ ~IsWordChar(s[i + 4])

\* re.search(r'\b(19|20)\d{2}\b', s): the leftmost match as a span, or
\* an empty span
YearSearch(s) ==
    IF \E i \in 1 .. Len(s) : YearAt(s, i)
    THEN <<MinOf({i \in 1 .. Len(s) : YearAt(s, i)}), 4>>
    ELSE <<1, 0>>

\* re.sub(r'\s+', ' ', s)
RECURSIVE CollapseSpaces(_)
CollapseSpaces(s) ==
    IF s = <<>> THEN <<>>
    ELSE IF IsSpace(Head(s))
    THEN <<" ">> \o CollapseSpaces(LStrip(s))
    ELSE <<Head(s)>> \o CollapseSpaces(Tail(s))

\* the year rule, with the span the search gave
YearValue(normalized_value, span) ==
    IF span[2] = 0 THEN normalized_value
    ELSE SubSeq(normalized_value, span[1], span[1] + span[2] - 1)

\* the body of the loop of normalize_field_values past the test of an empty
\* value
NormalizeNonEmpty(normalized_data, normalized_key, normalized_value) ==
    IF Contains(normalized_key, NameDerMine) /\ normalized_value # <<>>
    THEN DictPut(normalized_data, normalized_key, normalized_value)
    ELSE IF Contains(normalized_key, Jahr) /\ normalized_value # <<>>
    THEN DictPut(normalized_data, normalized_key,
                 YearValue(normalized_value, YearSearch(normalized_value)))
    ELSE IF Contains(normalized_key, Kosten) /\ normalized_value # <<>>
    THEN DictPut(normalized_data, normalized_key,
                 CollapseSpaces(normalized_value))
    ELSE DictPut(normalized_data, normalized_key, normalized_value)

\* the whole body: `if not value: normalized_data[key] = ""; continue`
NormalizeItem(normalized_data, key, value) ==
    IF value = <<>>
    THEN DictPut(normalized_data, key, <<>>)
    ELSE NormalizeNonEmpty(normalized_data, SafeStrip(key), SafeStrip(value))

RECURSIVE NormalizeItems(_, _)
NormalizeItems(normalized_data, items) ==
    IF items = <<>> THEN normalized_data
    ELSE NormalizeItems(NormalizeItem(normalized_data, Head(items)[1],
                                      Head(items)[2]),
                        Tail(items))

NormalizeFieldValues(items) ==
    TransformationResult(TRUE, NormalizeItems(EmptyDict, items), NoneStr)

\* the names the model extraction and the file name may give, the known
\* names, and what the matcher may answer for a name
ExtractedNames == {<<"A">>, <<"B">>}
FilenameNames == {<<"F">>, <<"G">>}
KnownNames == {<<"A">>, <<"C">>}
MatcherAnswers == [ExtractedNames \cup FilenameNames -> KnownNames \cup {<<>>}]

\* mine_data of enhance_mine_data_with_matching: without the name field,
\* with an empty name, with a name, and with a further field
EnhanceInputs ==
    {<<>>, <<<<NameDerMine, <<>>>>>>}
    \cup {<<<<NameDerMine, n>>>> : n \in ExtractedNames}
    \cup {<<<<Str_k, Str_a>>, <<NameDerMine, n>>>> : n \in ExtractedNames}

PotentialMineNames == {<<>>, <<<<"F">>>>, <<<<"F">>, <<"G">>>>, <<<<"G">>, <<"F">>>>}

\* data of normalize_field_values
NormalizeKeys ==
    {Str_k, Str_sp_k, <<"k", " ">>, <<" ", "J", "a", "h", "r">>, Jahr, <<"K", "o", "s", "t", "e", "n", " ">>, <<"N", "a", "m", "e", " ", "d", "e", "r", " ", "M", "i", "n", "e", " ">>}

NormalizeValues ==
    {Str_empty, Str_sp, Str_a, Str_a_sp, <<" ", "a", " ">>, <<" ", "x", " ", "2", "0", "2", "1", " ", "1", "9", "9", "9", " ">>, <<"i", "m", " ", "2", "0", "1", "9", "x">>, <<" ", "1", " ", " ", "2", " ", " ", " ", "3", " ">>}

NormalizeInputs ==
    {<<>>}
    \cup {<<<<k, v>>>> : k \in NormalizeKeys, v \in NormalizeValues}
    \cup {<<<<Str_sp_k, Str_empty>>, <<Str_k, Str_a>>>>,
          <<<<Str_k, Str_a>>, <<Str_sp_k, Str_empty>>>>,
          <<<<Str_sp_k, Str_a_sp>>, <<Str_k, Str_b>>>>,
          <<<<Str_k, Str_empty>>, <<Str_m, Str_sp>>>>}

TransformFrame ==
    UNCHANGED <<chunkVars, combVars, pipeVars, threadVars, utilVars,
                mine_data, potential_mine_names, best_matches>>

EnhanceMineDataWithMatchingCall ==
    /\ dpc = "call"
    /\ mine_data \in EnhanceInputs
    /\ transformation_result' =
           EnhanceMineDataWithMatching(mine_data, potential_mine_names)
    /\ dpc' = "enhance_mine_data_with_matching"
    /\ TransformFrame

NormalizeFieldValuesCall ==
    /\ dpc = "call"
    /\ mine_data \in NormalizeInputs
    /\ transformation_result' = NormalizeFieldValues(mine_data)
    /\ dpc' = "normalize_field_values"
    /\ TransformFrame

InitTransform ==
    /\ ChunksIdle
    /\ CombineIdle
    /\ PipeIdle
    /\ ThreadsIdle
    /\ UtilsIdle
    /\ \/ /\ mine_data \in EnhanceInputs
          /\ potential_mine_names \in PotentialMineNames
          /\ best_matches \in MatcherAnswers
       \/ /\ mine_data \in NormalizeInputs
          /\ potential_mine_names = <<>>
          /\ best_matches = <<>>
    /\ transformation_result = NoneValue
    /\ dpc = "call"

NextTransform ==
    \/ EnhanceMineDataWithMatchingCall
    \/ NormalizeFieldValuesCall

SpecTransform == InitTransform /\ [][NextTransform]_vars

(***************************************************************************)
(* Claims about the DataTransformer (specification SpecTransform).          *)
(***************************************************************************)
\* the extracted name of the record given to the name matching
ExtractedMineName == DictGet(DictOf(mine_data), NameDerMine, <<>>)

\* the filename candidates the matcher has a match for, by position
MatchingCandidates ==
    {i \in 1 .. Len(potential_mine_names) :
         FindBestMineMatch(potential_mine_names[i]) # <<>>}

\* C24: when the extracted name is non-empty and has no match, and a
\* filename candidate has one, the returned record has the match of the
\* first such candidate as its mine name and "Dateiname" as the source of
\* the name matching.
C24_FilenameFallback ==
    (/\ dpc = "enhance_mine_data_with_matching"
     /\ ExtractedMineName # <<>>
     /\ FindBestMineMatch(ExtractedMineName) = <<>>
     /\ MatchingCandidates # {}) =>
        /\ transformation_result.success
        /\ transformation_result.transformed_data[NameDerMine] =
               FindBestMineMatch(
                   potential_mine_names[MinOf(MatchingCandidates)])
        /\ QuelleNameMatching \in DOMAIN transformation_result.transformed_data
        /\ transformation_result.transformed_data[QuelleNameMatching] =
               Dateiname

\* C25: every key of the record normalize_field_values returns is the
\* trimmed form of a key of the input, and every value is trimmed, the
\* fields with an empty input value included.
C25_KeysAndValuesTrimmed ==
    dpc = "normalize_field_values" =>
        \A key \in DOMAIN transformation_result.transformed_data :
            /\ key = Strip(key)
            /\ \E i \in 1 .. Len(mine_data) : key = Strip(mine_data[i][1])
            /\ transformation_result.transformed_data[key] =
                   Strip(transformation_result.transformed_data[key])

====
